---- MODULE Spec2Model ----
(***************************************************************************)
(* Food diary conversation state machine and per-user record store of      *)
(* pmd_clever_note (tools/food_diary.py, handlers.py, storage.py).         *)
(*                                                                         *)
(* Python values are represented as follows.                               *)
(*   Optional[x]   None is <<>>, a present value x is <<x>>                *)
(*   message text  a sequence of one-character strings                     *)
(*   dict          a function whose DOMAIN is the set of keys present      *)
(*   instant       an integer number of clock ticks since the model epoch  *)
(*   record id     the whole second of an instant (the "%Y%m%d_%H%M%S"     *)
(*                 rendering is one-to-one on whole seconds)               *)
(*   stored dict   every value wrapped as an Optional, None being null     *)
(***************************************************************************)
EXTENDS Integers, Sequences, FiniteSets, TLC

\* ------------------------------------------------------------------ bounds
\* Last clock tick the model lets the wall clock reach.
MaxClock == 1
\* Most records kept, over all of one user's folders.
MaxRecords == 2
\* Most records kept by the specification that varies the inputs of one flow.
MaxFlowRecords == 1
\* Longest log the specification of the list screens starts from.
MaxViewRecords == 12
\* Records the time-choice specification lets the store reach.
MaxTimeRecords == 1
\* Updates handled as tasks of the event loop in one behaviour.
MaxTasks == 3
\* Records in the log when the event loop starts.
LoopRecords == 2
\* Clock ticks per wall-clock second (resolution of datetime.now()).
TicksPerSec == 1

Users == {1, 2}

None == <<>>
Some(x) == <<x>>

\* ----------------------------------------------------------------- strings
IsSpace(c) == c = " "

RECURSIVE LStrip(_)
LStrip(s) == IF s # <<>> /\ IsSpace(Head(s)) THEN LStrip(Tail(s)) ELSE s

RECURSIVE RStrip(_)
RStrip(s) ==
  IF s # <<>> /\ IsSpace(s[Len(s)]) THEN RStrip(SubSeq(s, 1, Len(s) - 1)) ELSE s

\* str.strip()
\* str.strip that removes nothing.
Strip_nothing(s) == s

Strip(s) == RStrip(LStrip(s))

\* str.startswith('/')
StartsWithSlash(s) == s # <<>> /\ Head(s) = "/"

DigitChars == {"0", "1", "2", "3", "4", "5", "6", "7", "8", "9"}

DigitVal(c) ==
  CASE c = "0" -> 0 [] c = "1" -> 1 [] c = "2" -> 2 [] c = "3" -> 3
    [] c = "4" -> 4 [] c = "5" -> 5 [] c = "6" -> 6 [] c = "7" -> 7
    [] c = "8" -> 8 [] c = "9" -> 9

RECURSIVE DecimalValue(_)
DecimalValue(ds) ==
  IF ds = <<>> THEN 0
  ELSE 10 * DecimalValue(SubSeq(ds, 1, Len(ds) - 1)) + DigitVal(ds[Len(ds)])

AllDigits(ds) == ds # <<>> /\ \A i \in 1..Len(ds) : ds[i] \in DigitChars

\* int(level): None stands for ValueError, Some(n) for the parsed integer.
ParseInt(str) ==
  LET s == Strip(str) IN
  IF s # <<>> /\ Head(s) \in {"+", "-"}
  THEN IF AllDigits(Tail(s))
       THEN Some((IF Head(s) = "-" THEN -1 ELSE 1) * DecimalValue(Tail(s)))
       ELSE None
  ELSE IF AllDigits(s) THEN Some(DecimalValue(s)) ELSE None

\* Truthiness of an Optional[str] whose value is a character sequence.
Truthy(o) == o # None /\ o[1] # <<>>
\* "not o" for an Optional[str]: None and the empty string are falsy.
Falsy(o) == o = None \/ o = Some(<<>>)
\* str.strip() of an atomic name: the blank name is all whitespace.
StripName(name) == IF name = " " THEN "" ELSE name
\* Truthiness of an Optional[str] whose value is an atomic name.
TruthyName(o) == o # None /\ o[1] # ""

\* ------------------------------------------------------------------- state
VARIABLES
  now,              \* wall clock, in ticks
  creation_states,  \* _FoodDiaryTool._creation_states: user id -> draft
  user_info,        \* UserStorage._user_info: user id -> names
  files,            \* the files under base/users: <<folder, rel>> -> content
  flow,             \* per user: progress of the flow the user is in (observer)
  screen,           \* the screen rendered by the last list or settings event
  tasks             \* the handler coroutines in flight on the event loop

vars == <<now, creation_states, user_info, files, flow, screen, tasks>>

RecordsRel == "food_diary/records.jsonl"
TimezoneRel == "food_diary/timezone.txt"

\* ----------------------------------------------------------------- storage
\* UserStorage._u: the folder of a user, from the names registered for it.
FolderOf(info, user_id) ==
  LET username == IF user_id \in DOMAIN info THEN info[user_id].username ELSE None
      first_name == IF user_id \in DOMAIN info THEN info[user_id].first_name ELSE None
  IN  IF TruthyName(username) THEN <<username[1], user_id>>
      ELSE IF TruthyName(first_name) THEN <<first_name[1], user_id>>
      ELSE <<"", user_id>>

\* UserStorage._u that names the folder by the registered name alone, without
\* the user id.
_u_name_only(info, user_id) == <<FolderOf(info, user_id)[1], 0>>

_u(info, user_id) == FolderOf(info, user_id)

\* UserStorage.set_user_info
set_user_info(info, user_id, username, first_name) ==
  [x \in DOMAIN info \cup {user_id} |->
     IF x = user_id THEN [username |-> username, first_name |-> first_name]
     ELSE info[x]]

\* json.dumps of one dict: every key kept, None as null, anything else tagged.
JsonDumps(obj) ==
  [k \in DOMAIN obj |->
     IF obj[k] = None THEN [t |-> "null"] ELSE [t |-> "value", v |-> obj[k][1]]]

\* json.loads of one line.
JsonLoads(line) ==
  [k \in DOMAIN line |-> IF line[k].t = "null" THEN None ELSE Some(line[k].v)]

\* UserStorage.write_jsonl: open(p, "a") and one line per item.
write_jsonl(f, p, items) ==
  [x \in DOMAIN f \cup {p} |->
     IF x = p
     THEN (IF p \in DOMAIN f THEN f[p] ELSE <<>>)
            \o [i \in 1..Len(items) |-> JsonDumps(items[i])]
     ELSE f[x]]

\* UserStorage.read_jsonl: [] for a missing file, else every line parsed.
read_jsonl(f, p) ==
  IF p \notin DOMAIN f THEN <<>>
  ELSE [i \in 1..Len(f[p]) |-> JsonLoads(f[p][i])]

\* UserStorage.write_text: the file is replaced by text.
write_text(f, p, text) ==
  [x \in DOMAIN f \cup {p} |-> IF x = p THEN text ELSE f[x]]

\* UserStorage.read_text: "" for a missing file.
read_text(f, p) == IF p \notin DOMAIN f THEN "" ELSE f[p]

\* _FoodDiaryTool._get_records
_get_records(info, f, user_id) == read_jsonl(f, <<_u(info, user_id), RecordsRel>>)

\* The try block of _get_user_timezone on what its read_text call did: the
\* call returned text (ok), or it raised (an OSError of open or read). The
\* bare "except:" answers None for anything raised.
TimezoneOfRead(read) ==
  IF ~read.ok THEN None
  ELSE IF StripName(read.text) # "" THEN Some(StripName(read.text)) ELSE None

\* _FoodDiaryTool._get_user_timezone
_get_user_timezone(info, f, user_id) ==
  TimezoneOfRead([ok |-> TRUE,
                  text |-> read_text(f, <<_u(info, user_id), TimezoneRel>>)])

\* ------------------------------------------------------------------- dicts
DictSet(d, k, v) == [x \in DOMAIN d \cup {k} |-> IF x = k THEN v ELSE d[x]]
DictDel(d, k) == [x \in DOMAIN d \ {k} |-> d[x]]
\* dict.get(k): None for a missing key.
Get(d, k) == IF k \in DOMAIN d THEN d[k] ELSE None

\* -------------------------------------------------------------------- time
\* datetime.isoformat() + "Z" of an aware UTC datetime: the offset is printed
\* and a "Z" follows it.
IsoZ(inst) == [inst |-> inst, offset |-> "+00:00", z |-> "Z"]

\* datetime.now(timezone.utc).strftime("%Y%m%d_%H%M%S"): the fraction of the
\* second is dropped.
StrftimeSeconds(inst) == inst \div TicksPerSec

Minutes(n) == n * 60 * TicksPerSec
Hours(n) == Minutes(60 * n)

\* The instant of tick 0, as a calendar date and time of day (UTC).
Epoch == [Y |-> 2024, m |-> 1, d |-> 15, H |-> 14, M |-> 30]

IsLeap(y) == y % 4 = 0 /\ (y % 100 # 0 \/ y % 400 = 0)

DaysInMonth(y, m) ==
  IF m = 2 THEN (IF IsLeap(y) THEN 29 ELSE 28)
  ELSE IF m \in {4, 6, 9, 11} THEN 30 ELSE 31

RECURSIVE DaysBeforeMonth(_, _)
DaysBeforeMonth(y, m) ==
  IF m = 1 THEN 0 ELSE DaysBeforeMonth(y, m - 1) + DaysInMonth(y, m - 1)

\* datetime's proleptic Gregorian ordinal of a date.
Ordinal(y, m, d) ==
  365 * (y - 1) + ((y - 1) \div 4) - ((y - 1) \div 100) + ((y - 1) \div 400)
    + DaysBeforeMonth(y, m) + d

\* Minutes from the epoch to a calendar date and time of day.
MinutesSinceEpoch(dt) ==
  (Ordinal(dt.Y, dt.m, dt.d) - Ordinal(Epoch.Y, Epoch.m, Epoch.d)) * 1440
    + (dt.H * 60 + dt.M) - (Epoch.H * 60 + Epoch.M)

\* Index of the first occurrence of character c in s at or after i, else 0.
RECURSIVE Find(_, _, _)
Find(s, c, i) ==
  IF i > Len(s) THEN 0 ELSE IF s[i] = c THEN i ELSE Find(s, c, i + 1)

\* A field of 1..width digits whose value lies in lo..hi (the strptime
\* directives %m, %d, %H and %M accept one or two digits, %Y exactly four).
FieldOk(ds, minw, maxw, lo, hi) ==
  /\ Len(ds) >= minw /\ Len(ds) <= maxw
  /\ AllDigits(ds)
  /\ DecimalValue(ds) >= lo /\ DecimalValue(ds) <= hi

\* datetime.strptime(text, "%Y-%m-%d %H:%M"): None stands for ValueError,
\* Some(fields) for the naive datetime. The blank of the format matches one
\* or more blanks of the input.
Strptime(text) ==
  LET d1 == Find(text, "-", 1)
      d2 == IF d1 = 0 THEN 0 ELSE Find(text, "-", d1 + 1)
      sp == IF d2 = 0 THEN 0 ELSE Find(text, " ", d2 + 1)
      co == IF sp = 0 THEN 0 ELSE Find(text, ":", sp + 1)
  IN  IF co = 0 THEN None
      ELSE
        LET Yf == SubSeq(text, 1, d1 - 1)
            mf == SubSeq(text, d1 + 1, d2 - 1)
            df == SubSeq(text, d2 + 1, sp - 1)
            Hf == LStrip(SubSeq(text, sp + 1, co - 1))
            Mf == SubSeq(text, co + 1, Len(text))
        IN  IF /\ FieldOk(Yf, 4, 4, 1, 9999)
               /\ FieldOk(mf, 1, 2, 1, 12)
               /\ FieldOk(df, 1, 2, 1, 31)
               /\ FieldOk(Hf, 1, 2, 0, 23)
               /\ FieldOk(Mf, 1, 2, 0, 59)
               /\ DecimalValue(df) <= DaysInMonth(DecimalValue(Yf), DecimalValue(mf))
            THEN Some([Y |-> DecimalValue(Yf), m |-> DecimalValue(mf),
                       d |-> DecimalValue(df), H |-> DecimalValue(Hf),
                       M |-> DecimalValue(Mf)])
            ELSE None

\* zoneinfo.ZoneInfo(key): the zones the model knows, with the UTC offset (in
\* minutes) they keep all year; None stands for ZoneInfoNotFoundError.
ZoneInfo(key) ==
  CASE key = "UTC" -> Some(0)
    [] key = "Asia/Dubai" -> Some(240)
    [] key = "Asia/Tokyo" -> Some(540)
    [] OTHER -> None

\* ------------------------------------------------------------- diary tool
\* RecordCreationState(...): fields not given default to None.
RecordCreationState(user_id, step, datetime_utc, record_text, hunger_before, hunger_after, drink, editing_record_id) ==
  [user_id |-> user_id, step |-> step, datetime_utc |-> datetime_utc,
   record_text |-> record_text, hunger_before |-> hunger_before,
   hunger_after |-> hunger_after, drink |-> drink,
   editing_record_id |-> editing_record_id]

\* What a handler hands back: the draft map, the files and the reply shown.
Result(cs, f, reply) == [cs |-> cs, files |-> f, reply |-> reply]

\* The time options with "2h" read as two minutes.
TimeOffset_2h_in_minutes(time_option) ==
  CASE time_option = "now" -> Some(0)
    [] time_option = "30m" -> Some(Minutes(30))
    [] time_option = "1h" -> Some(Hours(1))
    [] time_option = "2h" -> Some(Minutes(2))
    [] time_option = "3h" -> Some(Hours(3))
    [] time_option = "4h" -> Some(Hours(4))
    [] OTHER -> None

\* The timedelta of a time option; None for "custom" and unknown options.
TimeOffset(time_option) ==
  CASE time_option = "now" -> Some(0)
    [] time_option = "30m" -> Some(Minutes(30))
    [] time_option = "1h" -> Some(Hours(1))
    [] time_option = "2h" -> Some(Hours(2))
    [] time_option = "3h" -> Some(Hours(3))
    [] time_option = "4h" -> Some(Hours(4))
    [] OTHER -> None

\* _FoodDiaryTool._add_record_prompt: the menu of time choices is built,
\* nothing is stored.
_add_record_prompt(cs, f) == Result(cs, f, "ask_time")

\* _FoodDiaryTool._show_custom_time_input
_show_custom_time_input(cs, f, user_id) ==
  Result(DictSet(cs, user_id,
           RecordCreationState(user_id, "custom_time", None, None, None, None,
                               None, None)),
         f, "ask_custom_time")

\* _FoodDiaryTool.handle_time_selection
handle_time_selection(cs, f, user_id, time_option) ==
  IF TimeOffset(time_option) # None
  THEN Result(DictSet(cs, user_id,
                RecordCreationState(user_id, "text",
                  Some(IsoZ(now - TimeOffset(time_option)[1])),
                  None, None, None, None, None)),
              f, "ask_text")
  ELSE IF time_option = "custom"
  THEN _show_custom_time_input(cs, f, user_id)
  ELSE Result(cs, f, "invalid_time_selection")

\* handle_custom_time_input that ends the draft on a text it cannot parse.
handle_custom_time_input_drops_draft(cs, info, f, user_id, time_text) ==
  LET selected_time == Strptime(Strip(time_text))
      user_timezone == _get_user_timezone(info, f, user_id)
  IN  IF selected_time = None THEN Result(DictDel(cs, user_id), f, "invalid_time_format")
      ELSE IF user_timezone # None /\ ZoneInfo(user_timezone[1]) = None
      THEN Result(cs, f, "exception")
      ELSE
        LET utcoffset == IF user_timezone # None THEN ZoneInfo(user_timezone[1])[1]
                         ELSE 0
            utc_dt == Minutes(MinutesSinceEpoch(selected_time[1]) - utcoffset)
        IN  Result(DictSet(cs, user_id,
                     RecordCreationState(user_id, "text", Some(IsoZ(utc_dt)),
                                         None, None, None, None, None)),
                   f, "ask_text")

\* handle_custom_time_input that stores the typed wall-clock time as it is,
\* whatever the user's zone.
handle_custom_time_input_stores_wall_clock(cs, info, f, user_id, time_text) ==
  LET selected_time == Strptime(Strip(time_text))
      user_timezone == _get_user_timezone(info, f, user_id)
  IN  IF selected_time = None THEN Result(cs, f, "invalid_time_format")
      ELSE IF user_timezone # None /\ ZoneInfo(user_timezone[1]) = None
      THEN Result(cs, f, "exception")
      ELSE
        LET utc_dt == Minutes(MinutesSinceEpoch(selected_time[1]))
        IN  Result(DictSet(cs, user_id,
                     RecordCreationState(user_id, "text", Some(IsoZ(utc_dt)),
                                         None, None, None, None, None)),
                   f, "ask_text")

\* _FoodDiaryTool.handle_custom_time_input. The naive time is read in the
\* user's zone when one is set, as UTC otherwise. A zone name ZoneInfo does not
\* know raises ZoneInfoNotFoundError, which is no ValueError and leaves the
\* handler.
handle_custom_time_input(cs, info, f, user_id, time_text) ==
  LET selected_time == Strptime(Strip(time_text))
      user_timezone == _get_user_timezone(info, f, user_id)
  IN  IF selected_time = None THEN Result(cs, f, "invalid_time_format")
      ELSE IF user_timezone # None /\ ZoneInfo(user_timezone[1]) = None
      THEN Result(cs, f, "exception")
      ELSE
        LET utcoffset == IF user_timezone # None THEN ZoneInfo(user_timezone[1])[1]
                         ELSE 0
            utc_dt == Minutes(MinutesSinceEpoch(selected_time[1]) - utcoffset)
        IN  Result(DictSet(cs, user_id,
                     RecordCreationState(user_id, "text", Some(IsoZ(utc_dt)),
                                         None, None, None, None, None)),
                   f, "ask_text")

\* handle_text_input without its test for a leading "/": the message is taken
\* as the record text.
handle_text_input_no_command_test(cs, f, user_id, text) ==
  IF Strip(text) = <<>> THEN Result(cs, f, "please_enter_text")
  ELSE IF user_id \notin DOMAIN cs \/ Falsy(cs[user_id].datetime_utc)
  THEN Result(cs, f, "no_time_selected")
  ELSE
    LET state == cs[user_id]
    IN  Result(DictSet(cs, user_id,
                 RecordCreationState(user_id, "drink", state.datetime_utc,
                   Some(Strip(text)), None, None, state.drink,
                   state.editing_record_id)),
               f, "ask_drink")

\* _FoodDiaryTool.handle_text_input
handle_text_input(cs, f, user_id, text) ==
  IF Strip(text) = <<>> THEN Result(cs, f, "please_enter_text")
  ELSE IF StartsWithSlash(Strip(text))
  THEN Result(IF user_id \in DOMAIN cs THEN DictDel(cs, user_id) ELSE cs,
              f, "cancelled_command")
  ELSE IF user_id \notin DOMAIN cs \/ Falsy(cs[user_id].datetime_utc)
  THEN Result(cs, f, "no_time_selected")
  ELSE
    LET state == cs[user_id]
    IN  Result(DictSet(cs, user_id,
                 RecordCreationState(user_id, "drink", state.datetime_utc,
                   Some(Strip(text)), None, None, state.drink,
                   state.editing_record_id)),
               f, "ask_drink")

\* _FoodDiaryTool.handle_drink_input
handle_drink_input(cs, f, user_id, drink_text) ==
  IF user_id \notin DOMAIN cs THEN Result(cs, f, "no_active_creation")
  ELSE
    LET state == cs[user_id]
    IN  Result(DictSet(cs, user_id,
                 RecordCreationState(user_id, "hunger_before", state.datetime_utc,
                   state.record_text, None, None, Some(Strip(drink_text)),
                   state.editing_record_id)),
               f, "ask_hunger_before")

\* next((i for i, r in enumerate(records) if r['id'] == record_id), -1),
\* counted from 1, with 0 for "not found".
RECURSIVE IndexOfId(_, _, _)
IndexOfId(records, record_id, i) ==
  IF i > Len(records) THEN 0
  ELSE IF records[i].id = record_id THEN i
  ELSE IndexOfId(records, record_id, i + 1)

\* dict.update(changes)
\* dict.update that keeps nothing of the dict: the changes replace it.
DictUpdate_replaces(d, changes) == changes

DictUpdate(d, changes) ==
  [k \in DOMAIN d \cup DOMAIN changes |->
     IF k \in DOMAIN changes THEN changes[k] ELSE d[k]]

\* The record a completed new-record draft is saved as.
NewRecord(state) ==
  [id |-> Some(StrftimeSeconds(now)),
   datetime_utc |-> state.datetime_utc,
   record |-> state.record_text,
   hunger_before |-> state.hunger_before,
   hunger_after |-> state.hunger_after,
   drink |-> state.drink,
   picture |-> None]

\* The fields an edit writes into the stored record.
EditChanges(state) ==
  [datetime_utc |-> state.datetime_utc,
   record |-> state.record_text,
   hunger_before |-> state.hunger_before,
   hunger_after |-> state.hunger_after,
   drink |-> state.drink]

\* The rewrite without its clearing step: the records are appended to the file
\* as it is.
RewriteAll_no_clear(f, p, records) == write_jsonl(f, p, records)

\* "Clear the file and rewrite all records": write_text(""), then write_jsonl.
RewriteAll(f, p, records) == write_jsonl(write_text(f, p, <<>>), p, records)

\* _save_complete_record that saves an edit whose record is missing as a new
\* record instead of reporting it.
_save_complete_record_missing_as_new(cs, info, f, user_id) ==
  IF user_id \notin DOMAIN cs THEN Result(cs, f, "no_active_creation")
  ELSE
    LET state == cs[user_id]
        p == <<_u(info, user_id), RecordsRel>>
        records == _get_records(info, f, user_id)
        record_index == IndexOfId(records, state.editing_record_id, 1)
    IN  IF state.editing_record_id # None /\ record_index # 0
        THEN Result(DictDel(cs, user_id),
               RewriteAll(f, p,
                 [records EXCEPT ![record_index] =
                    DictUpdate(@, EditChanges(state))]),
               "record_updated")
        ELSE Result(DictDel(cs, user_id),
                    write_jsonl(f, p, <<NewRecord(state)>>),
                    "record_added")

\* _save_complete_record that leaves the draft of a new record in place after
\* the record is written.
_save_complete_record_keeps_draft(cs, info, f, user_id) ==
  IF user_id \notin DOMAIN cs THEN Result(cs, f, "no_active_creation")
  ELSE
    LET state == cs[user_id]
        p == <<_u(info, user_id), RecordsRel>>
    IN  IF state.editing_record_id # None
        THEN
          LET records == _get_records(info, f, user_id)
              record_index == IndexOfId(records, state.editing_record_id, 1)
          IN  IF record_index = 0 THEN Result(cs, f, "edit_target_not_found")
              ELSE Result(DictDel(cs, user_id),
                     RewriteAll(f, p,
                       [records EXCEPT ![record_index] =
                          DictUpdate(@, EditChanges(state))]),
                     "record_updated")
        ELSE Result(cs, write_jsonl(f, p, <<NewRecord(state)>>), "record_added")

\* _FoodDiaryTool._save_complete_record
_save_complete_record(cs, info, f, user_id) ==
  IF user_id \notin DOMAIN cs THEN Result(cs, f, "no_active_creation")
  ELSE
    LET state == cs[user_id]
        p == <<_u(info, user_id), RecordsRel>>
    IN  IF state.editing_record_id # None
        THEN
          LET records == _get_records(info, f, user_id)
              record_index == IndexOfId(records, state.editing_record_id, 1)
          IN  IF record_index = 0 THEN Result(cs, f, "edit_target_not_found")
              ELSE Result(DictDel(cs, user_id),
                     RewriteAll(f, p,
                       [records EXCEPT ![record_index] =
                          DictUpdate(@, EditChanges(state))]),
                     "record_updated")
        ELSE Result(DictDel(cs, user_id),
                    write_jsonl(f, p, <<NewRecord(state)>>),
                    "record_added")

SkipLevel == <<"s", "k", "i", "p">>
BackLevel == <<"b", "a", "c", "k">>

\* handle_hunger_selection, hunger "after": the draft becomes complete.
CompleteState(cs, user_id, hunger_value) ==
  DictSet(cs, user_id,
    RecordCreationState(user_id, "complete", cs[user_id].datetime_utc,
      cs[user_id].record_text, cs[user_id].hunger_before, hunger_value,
      cs[user_id].drink, cs[user_id].editing_record_id))

\* _FoodDiaryTool.handle_hunger_selection
handle_hunger_selection(cs, info, f, user_id, hunger_type, level) ==
  IF user_id \notin DOMAIN cs THEN Result(cs, f, "no_active_creation")
  ELSE IF level # SkipLevel /\ ParseInt(level) = None
  THEN Result(cs, f, "invalid_hunger_level")
  ELSE
    LET state == cs[user_id]
        hunger_value == IF level = SkipLevel THEN None ELSE ParseInt(level)
    IN  IF hunger_type = "before"
        THEN Result(DictSet(cs, user_id,
                      RecordCreationState(user_id, "hunger_after",
                        state.datetime_utc, state.record_text, hunger_value,
                        None, None, state.editing_record_id)),
                    f, "ask_hunger_after")
        ELSE _save_complete_record(CompleteState(cs, user_id, hunger_value),
                                   info, f, user_id)

\* _FoodDiaryTool.handle_hunger_back: a prompt is shown, nothing is stored.
handle_hunger_back(cs, f, user_id) ==
  IF user_id \notin DOMAIN cs THEN Result(cs, f, "no_active_creation")
  ELSE IF cs[user_id].step = "hunger_before" THEN Result(cs, f, "ask_text")
  ELSE IF cs[user_id].step = "hunger_after" THEN Result(cs, f, "ask_hunger_before")
  ELSE Result(cs, f, "invalid_back_navigation")

\* cancel_record_creation that removes the draft only in the steps that prompt
\* for a time or a text, not in the hunger steps.
cancel_record_creation_prompt_steps(cs, f, user_id) ==
  Result(IF user_id \in DOMAIN cs
            /\ cs[user_id].step \in {"datetime", "custom_time", "text", "drink"}
         THEN DictDel(cs, user_id) ELSE cs,
         f, "main_menu")

\* _FoodDiaryTool.cancel_record_creation
cancel_record_creation(cs, f, user_id) ==
  Result(IF user_id \in DOMAIN cs THEN DictDel(cs, user_id) ELSE cs, f, "main_menu")

\* [r for r in records if r['id'] != record_id]
RECURSIVE WithoutId(_, _)
WithoutId(records, record_id) ==
  IF records = <<>> THEN <<>>
  ELSE IF Head(records).id # record_id
       THEN <<Head(records)>> \o WithoutId(Tail(records), record_id)
       ELSE WithoutId(Tail(records), record_id)

\* _FoodDiaryTool._remove_record
_remove_record(cs, info, f, user_id, record_id) ==
  LET records == _get_records(info, f, user_id)
      updated_records == WithoutId(records, record_id)
      p == <<_u(info, user_id), RecordsRel>>
      cleared == write_text(f, p, <<>>)
  IN  Result(cs,
             IF updated_records # <<>> THEN write_jsonl(cleared, p, updated_records)
             ELSE cleared,
             "edit_menu")

\* _FoodDiaryTool._start_edit_record
_start_edit_record(cs, info, f, user_id, record_id) ==
  LET records == _get_records(info, f, user_id)
      i == IndexOfId(records, record_id, 1)
  IN  IF i = 0 THEN Result(cs, f, "record_not_found")
      ELSE
        LET record == records[i]
        IN  Result(DictSet(cs, user_id,
                     RecordCreationState(user_id, "datetime",
                       IF "datetime_utc" \in DOMAIN record THEN record.datetime_utc
                       ELSE IF "timestamp" \in DOMAIN record THEN record.timestamp
                       ELSE Some(<<>>),
                       IF "record" \in DOMAIN record THEN record.record
                       ELSE IF "text" \in DOMAIN record THEN record.text
                       ELSE Some(<<>>),
                       Get(record, "hunger_before"), Get(record, "hunger_after"),
                       Get(record, "drink"), record_id)),
                   f, "ask_edit_time")

\* ------------------------------------------------------------------ screens
\* Records shown on one page of the records list and of the edit list.
PageSize == 5

Min(a, b) == IF a <= b THEN a ELSE b
Max(a, b) == IF a >= b THEN a ELSE b

\* A slice index of Python, brought into 0..n: a negative one counts from
\* the end.
SliceIndex(i, n) == IF i < 0 THEN Max(n + i, 0) ELSE Min(i, n)

\* s[start:end] of Python (positions counted from 0, end excluded).
PySlice(s, start, end) ==
  LET lo == SliceIndex(start, Len(s))
      hi == SliceIndex(end, Len(s))
  IN  IF lo >= hi THEN <<>> ELSE SubSeq(s, lo + 1, hi)

\* record.get(k, record.get(k2, '')): the stored value of k, null included,
\* when the key is present.
GetOr(d, k, default) == IF k \in DOMAIN d THEN d[k] ELSE default

\* The empty string where a stored time is expected.
EmptyTime == [inst |-> 0, offset |-> "", z |-> ""]

\* _format_time_for_user without its fallback: a zone name ZoneInfo does not
\* know makes the method raise.
_format_time_for_user_no_fallback(utc_time_str, user_timezone) ==
  IF utc_time_str = None THEN None
  ELSE
    LET v == utc_time_str[1]
        utc_minute == v.inst \div Minutes(1)
    IN  IF v = EmptyTime THEN None
        ELSE IF TruthyName(user_timezone)
        THEN IF ZoneInfo(user_timezone[1]) = None THEN None
             ELSE Some([form |-> "local",
                        minute |-> utc_minute + ZoneInfo(user_timezone[1])[1],
                        label |-> ""])
        ELSE Some([form |-> "utc", minute |-> utc_minute, label |-> "UTC"])

\* _FoodDiaryTool._format_time_for_user; None stands for an exception that
\* leaves the method. A value that is no string (null) fails in the try block
\* and again in the fallback utc_time_str[:16]. The rendering names its form
\* (utc: "%Y-%m-%d %H:%M UTC", local: "%Y-%m-%d %H:%M" in the user's zone,
\* raw16: the first 16 characters of the stored string, empty: '') and the
\* minute it shows, counted from the epoch.
_format_time_for_user(utc_time_str, user_timezone) ==
  IF utc_time_str = None THEN None
  ELSE
    LET v == utc_time_str[1]
        utc_minute == v.inst \div Minutes(1)
    IN  IF v = EmptyTime THEN Some([form |-> "empty", minute |-> 0, label |-> ""])
        ELSE IF TruthyName(user_timezone)
        THEN IF ZoneInfo(user_timezone[1]) = None
             THEN Some([form |-> "raw16", minute |-> utc_minute, label |-> ""])
             ELSE Some([form |-> "local",
                        minute |-> utc_minute + ZoneInfo(user_timezone[1])[1],
                        label |-> ""])
        ELSE Some([form |-> "utc", minute |-> utc_minute, label |-> "UTC"])

\* A screen: what a list or settings event renders.
NoScreen == [user |-> 0, op |-> "none", arg |-> None, view |-> [kind |-> "none"]]
ExceptionScreen == [kind |-> "exception"]

\* text[:k] of a record text; None stands for the TypeError of slicing null.
Truncated(text, k) ==
  IF text = None THEN None ELSE Some(SubSeq(text[1], 1, Min(k, Len(text[1]))))

\* One line of a list page: the formatted time and the shortened text of a
\* record; None when rendering it raises.
PageLine(record, user_timezone, width) ==
  LET record_text == GetOr(record, "record", GetOr(record, "text", Some(<<>>)))
      record_time == GetOr(record, "datetime_utc",
                           GetOr(record, "timestamp", Some(EmptyTime)))
      formatted_time == _format_time_for_user(record_time, user_timezone)
  IN  IF formatted_time = None \/ Truncated(record_text, width) = None THEN None
      ELSE Some([time |-> formatted_time[1], text |-> Truncated(record_text, width)[1]])

\* The page of a list whose Next button is always there.
ListPage_always_next(kind, records, user_timezone, offset, width) ==
  LET start_idx == offset
      end_idx == Min(offset + PageSize, Len(records))
      display_records == PySlice(records, start_idx, end_idx)
  IN  IF \E i \in 1..Len(display_records) :
           PageLine(display_records[i], user_timezone, width) = None
      THEN ExceptionScreen
      ELSE [kind |-> kind,
            display_records |-> display_records,
            lines |-> [i \in 1..Len(display_records) |->
                         PageLine(display_records[i], user_timezone, width)[1]],
            header |-> <<start_idx + 1, end_idx, Len(records)>>,
            previous |-> IF offset > 0 THEN Some(offset - PageSize) ELSE None,
            next |-> Some(offset + PageSize)]

\* The page of a list: the records displayed, their lines, the bounds named
\* in the header and the offsets of the Previous and Next buttons.
ListPage(kind, records, user_timezone, offset, width) ==
  LET start_idx == offset
      end_idx == Min(offset + PageSize, Len(records))
      display_records == PySlice(records, start_idx, end_idx)
  IN  IF \E i \in 1..Len(display_records) :
           PageLine(display_records[i], user_timezone, width) = None
      THEN ExceptionScreen
      ELSE [kind |-> kind,
            display_records |-> display_records,
            lines |-> [i \in 1..Len(display_records) |->
                         PageLine(display_records[i], user_timezone, width)[1]],
            header |-> <<start_idx + 1, end_idx, Len(records)>>,
            previous |-> IF offset > 0 THEN Some(offset - PageSize) ELSE None,
            next |-> IF end_idx < Len(records) THEN Some(offset + PageSize) ELSE None]

\* _FoodDiaryTool._show_records
_show_records(info, f, user_id, offset) ==
  LET records == _get_records(info, f, user_id)
      user_timezone == _get_user_timezone(info, f, user_id)
  IN  IF records = <<>> THEN [kind |-> "no_records"]
      ELSE ListPage("records", records, user_timezone, offset, 50)

\* _FoodDiaryTool._edit_records_menu
_edit_records_menu(info, f, user_id, offset) ==
  LET records == _get_records(info, f, user_id)
      user_timezone == _get_user_timezone(info, f, user_id)
  IN  IF records = <<>> THEN [kind |-> "no_records_to_edit"]
      ELSE ListPage("edit_records", records, user_timezone, offset, 30)

\* f"{offset}": the decimal digits of an integer, "-" first when negative.
RECURSIVE DecimalDigits(_)
DecimalDigits(n) ==
  LET c == CHOOSE d \in DigitChars : DigitVal(d) = n % 10
  IN  IF n < 10 THEN <<c>> ELSE DecimalDigits(n \div 10) \o <<c>>

IntStr(n) == IF n < 0 THEN <<"-">> \o DecimalDigits(-n) ELSE DecimalDigits(n)

\* int(callback.data.split("_")[-1]), 0 on ValueError.
TokenOffset(last_part) ==
  IF ParseInt(last_part) = None THEN 0 ELSE ParseInt(last_part)[1]

\* food_diary_records_pagination without the except clause: an offset part
\* int() refuses makes the handler raise.
food_diary_records_pagination_no_except(info, f, user_id, last_part) ==
  IF ParseInt(last_part) = None THEN ExceptionScreen
  ELSE _show_records(info, f, user_id, ParseInt(last_part)[1])

\* food_diary_records_pagination
food_diary_records_pagination(info, f, user_id, last_part) ==
  _show_records(info, f, user_id, TokenOffset(last_part))

\* food_diary_edit_pagination
food_diary_edit_pagination(info, f, user_id, last_part) ==
  _edit_records_menu(info, f, user_id, TokenOffset(last_part))

\* _FoodDiaryTool.add_record (legacy: no "drink" key is written)
add_record(info, f, user_id, text, photo_id) ==
  write_jsonl(f, <<_u(info, user_id), RecordsRel>>,
    << [id |-> Some(StrftimeSeconds(now)),
        datetime_utc |-> Some(IsoZ(now)),
        record |-> Some(text),
        hunger_before |-> None,
        hunger_after |-> None,
        picture |-> photo_id] >>)

\* _FoodDiaryTool._set_user_timezone
_set_user_timezone(info, f, user_id, timezone_str) ==
  write_text(f, <<_u(info, user_id), TimezoneRel>>, timezone_str)

\* _set_timezone that also ends the user's draft.
_set_timezone_ends_draft(cs, info, f, user_id, timezone_str) ==
  Result(IF user_id \in DOMAIN cs THEN DictDel(cs, user_id) ELSE cs,
         _set_user_timezone(info, f, user_id, timezone_str), "timezone_updated")

\* _FoodDiaryTool._set_timezone
_set_timezone(cs, info, f, user_id, timezone_str) ==
  Result(cs, _set_user_timezone(info, f, user_id, timezone_str), "timezone_updated")

\* _FoodDiaryTool._show_main_menu: the Records and Settings buttons.
_show_main_menu == [kind |-> "main_menu"]

\* _FoodDiaryTool._show_settings: the zone named is the preference, "UTC"
\* when none is set.
_show_settings(info, f, user_id) ==
  LET user_timezone == _get_user_timezone(info, f, user_id)
  IN  [kind |-> "settings",
       timezone_display |-> IF TruthyName(user_timezone) THEN user_timezone[1] ELSE "UTC"]

\* _FoodDiaryTool._show_timezone_settings: the zone named and the zone ticked
\* in the list.
_show_timezone_settings(info, f, user_id) ==
  LET current_timezone == _get_user_timezone(info, f, user_id)
  IN  [kind |-> "timezone_settings",
       current_display |-> IF TruthyName(current_timezone) THEN current_timezone[1]
                           ELSE "UTC",
       ticked |-> current_timezone]

\* _FoodDiaryTool._show_record_details: the record, its formatted time and
\* the ids on the Previous Record and Next Record buttons.
_show_record_details(info, f, user_id, record_id) ==
  LET records == _get_records(info, f, user_id)
      current_index == IndexOfId(records, record_id, 1)
      user_timezone == _get_user_timezone(info, f, user_id)
  IN  IF current_index = 0 THEN [kind |-> "record_not_found"]
      ELSE
        LET record == records[current_index]
            record_time == GetOr(record, "datetime_utc",
                                 GetOr(record, "timestamp", Some(EmptyTime)))
            formatted_time == _format_time_for_user(record_time, user_timezone)
        IN  IF formatted_time = None THEN ExceptionScreen
            ELSE [kind |-> "record_details",
                  record |-> record,
                  time |-> formatted_time[1],
                  previous |-> IF current_index > 1 THEN records[current_index - 1].id
                               ELSE None,
                  next |-> IF current_index < Len(records)
                           THEN records[current_index + 1].id ELSE None]

\* _FoodDiaryTool._show_remove_confirmation: the first 50 characters of the
\* record's text and the id on the Yes, Remove button.
_show_remove_confirmation(info, f, user_id, record_id) ==
  LET records == _get_records(info, f, user_id)
      i == IndexOfId(records, record_id, 1)
  IN  IF i = 0 THEN [kind |-> "record_not_found"]
      ELSE
        LET record_text == GetOr(records[i], "record",
                                 GetOr(records[i], "text", Some(<<>>)))
        IN  IF Truncated(record_text, 50) = None THEN ExceptionScreen
            ELSE [kind |-> "remove_confirmation",
                  text |-> Truncated(record_text, 50)[1],
                  confirm |-> record_id]

\* What a handler that shows a screen leaves: the names registered, the
\* drafts, the files, and the screen. food_diary_main and food_diary_records
\* register the sender's name before they read; the others read only.
Shown(info, cs, f, view) == [info |-> info, cs |-> cs, files |-> f, view |-> view]

\* food_diary_main
food_diary_main(info, cs, f, user_id, from_user) ==
  Shown(set_user_info(info, user_id, from_user.username, from_user.first_name),
        cs, f, _show_main_menu)

\* food_diary_records
food_diary_records(info, cs, f, user_id, from_user) ==
  LET named == set_user_info(info, user_id, from_user.username, from_user.first_name)
  IN  Shown(named, cs, f, _show_records(named, f, user_id, 0))

\* food_diary_edit
food_diary_edit(info, cs, f, user_id) ==
  Shown(info, cs, f, _edit_records_menu(info, f, user_id, 0))

\* food_diary_select_record
food_diary_select_record(info, cs, f, user_id, record_id) ==
  Shown(info, cs, f, _show_record_details(info, f, user_id, record_id))

\* food_diary_remove_record
food_diary_remove_record(info, cs, f, user_id, record_id) ==
  Shown(info, cs, f, _show_remove_confirmation(info, f, user_id, record_id))

\* food_diary_settings
food_diary_settings(info, cs, f, user_id) ==
  Shown(info, cs, f, _show_settings(info, f, user_id))

\* food_diary_timezone_settings
food_diary_timezone_settings(info, cs, f, user_id) ==
  Shown(info, cs, f, _show_timezone_settings(info, f, user_id))

\* ---------------------------------------------------------------- handlers
\* food_diary_hunger_selection: parts is callback.data.split("_").
food_diary_hunger_selection(cs, info, f, user_id, parts) ==
  IF Len(parts) >= 4
  THEN IF parts[4] = BackLevel THEN handle_hunger_back(cs, f, user_id)
       ELSE handle_hunger_selection(cs, info, f, user_id, parts[3], parts[4])
  ELSE Result(cs, f, "no_reply")

\* food_diary_skip_time
food_diary_skip_time(cs, f, user_id) ==
  IF user_id \in DOMAIN cs
  THEN LET state == cs[user_id]
       IN  Result(DictSet(cs, user_id,
                    RecordCreationState(user_id, "text", state.datetime_utc,
                      state.record_text, state.hunger_before, state.hunger_after,
                      None, state.editing_record_id)),
                  f, "ask_edit_text")
  ELSE Result(cs, f, "ask_edit_text")

\* food_diary_skip_text
food_diary_skip_text(cs, f, user_id) ==
  IF user_id \in DOMAIN cs
  THEN LET state == cs[user_id]
       IN  Result(DictSet(cs, user_id,
                    RecordCreationState(user_id, "drink", state.datetime_utc,
                      state.record_text, None, None, state.drink,
                      state.editing_record_id)),
                  f, "ask_drink")
  ELSE Result(cs, f, "ask_drink")

\* food_diary_skip_drink
food_diary_skip_drink(cs, f, user_id) ==
  IF user_id \in DOMAIN cs
  THEN LET state == cs[user_id]
       IN  Result(DictSet(cs, user_id,
                    RecordCreationState(user_id, "hunger_before",
                      state.datetime_utc, state.record_text, None, None,
                      state.drink, state.editing_record_id)),
                  f, "ask_hunger_before")
  ELSE Result(cs, f, "ask_hunger_before")

\* food_diary_text_back: with no draft, state.datetime_utc raises AttributeError.
food_diary_text_back(cs, f, user_id) ==
  IF user_id \in DOMAIN cs
  THEN LET state == cs[user_id]
       IN  Result(DictSet(cs, user_id,
                    RecordCreationState(user_id, "text", state.datetime_utc,
                      state.record_text, None, None, state.drink,
                      state.editing_record_id)),
                  f, "ask_text")
  ELSE Result(cs, f, "exception")

\* food_diary_edit_back
food_diary_edit_back(cs, f, user_id) ==
  Result(IF user_id \in DOMAIN cs THEN DictDel(cs, user_id) ELSE cs, f, "edit_menu")

\* handle_text_input of handlers.py, after set_user_info: a typed message goes
\* to the handler of the draft's step, and is ignored in every other case.
message_dispatch(cs, info, f, user_id, text) ==
  IF user_id \in DOMAIN cs
  THEN IF cs[user_id].step = "custom_time"
       THEN handle_custom_time_input(cs, info, f, user_id, text)
       ELSE IF cs[user_id].step = "text"
       THEN handle_text_input(cs, f, user_id, text)
       ELSE IF cs[user_id].step = "drink"
       THEN handle_drink_input(cs, f, user_id, text)
       ELSE Result(cs, f, "ignored")
  ELSE Result(cs, f, "ignored")

\* ------------------------------------------------------------------ inputs
\* from_user of an update: the names Telegram reports for the sender.
Profiles ==
  { [username |-> Some("bob"), first_name |-> Some("Al")] }

\* Options carried by fd_time_<option> tokens.
TimeOptions == {"now", "30m", "1h", "2h", "3h", "4h", "custom", "5h"}

ValidTimeText ==
  <<"2", "0", "2", "4", "-", "0", "1", "-", "1", "5", " ", "1", "4", ":", "3", "0">>

\* Texts of typed messages.
Messages == { <<>>, <<" ", "e", " ">>, <<"/", "s">>, ValidTimeText }

\* Level parts of the fd_hunger_<type>_<level> tokens.
LevelStrings == { SkipLevel, <<"7">>, <<"1", "1">>, <<"x">> }

\* callback.data.split("_") of an fd_hunger_ token.
HungerToken(hunger_type, level) == <<"fd", "hunger", hunger_type, level>>
BackToken == <<"fd", "hunger", "back">>

\* Record ids carried by fd_edit_record_ and fd_confirm_remove_ tokens: every
\* id the clock can produce, and one more that no record has.
RecordIdTokens == { Some(i) : i \in 0..(MaxClock \div TicksPerSec) + 1 }

\* What a specification delivers: the users that send events and the inputs
\* their events carry, and the number of records it lets the store reach.
Inputs(users, time_options, messages, levels, max_records) ==
  [users |-> users, time_options |-> time_options, messages |-> messages,
   levels |-> levels, max_records |-> max_records]

\* ----------------------------------------------------------------- actions
StepOf(user_id) ==
  IF user_id \in DOMAIN creation_states THEN creation_states[user_id].step
  ELSE "none"

\* Number of records stored in all records files.
RECURSIVE SumLen(_, _)
SumLen(f, ps) ==
  IF ps = {} THEN 0
  ELSE LET p == CHOOSE q \in ps : TRUE
       IN  (IF p[2] = RecordsRel THEN Len(f[p]) ELSE 0) + SumLen(f, ps \ {p})

RecordCount(f) == SumLen(f, DOMAIN f)

\* The user's record log, as the tool reads it now.
Log(user_id) == _get_records(user_info, files, user_id)

\* ---------------------------------------------------------------- observer
\* flow[u] follows the flow user u is in, one event of u at a time. It never
\* influences the program. Its kinds:
\*   none       nothing followed
\*   new        a new-record flow begun with a time choice and no draft, given
\*              its inputs in order so far (stage is the step awaited next,
\*              log0 the user's log when it began)
\*   edit       an edit flow begun with "edit record X", taken through the
\*              steps in order so far; n is the length of the log at its
\*              start, touched whether a deletion was confirmed meanwhile
\*   done_new   the event just handled was the hunger-after input of a new flow
\*   done_edit  the event just handled was the hunger-after input of an edit flow
\*   cancelled  the event just handled was the cancel action (from: the step)
\*   aborted    the event just handled was a "/" message taken in step text
\*   off        events arrived out of the order of a flow
NoFlow == [kind |-> "none"]
OffFlow == [kind |-> "off"]

InRange(o) == o # None /\ o[1] \in 1..10

FlowOnTime(f, user_id, time_option, r) ==
  IF f.kind = "edit" /\ f.stage = "datetime"
  THEN IF TimeOffset(time_option) # None
       THEN [f EXCEPT !.stage = "text", !.choice = time_option]
       ELSE IF time_option = "custom"
       THEN [f EXCEPT !.stage = "custom_time", !.choice = time_option]
       ELSE f
  ELSE IF user_id \notin DOMAIN creation_states /\ TimeOffset(time_option) # None
  THEN [kind |-> "new", stage |-> "text", log0 |-> Log(user_id),
        time |-> Some(IsoZ(now - TimeOffset(time_option)[1])),
        text |-> None, drink |-> None, before |-> None]
  ELSE OffFlow

FlowOnMessage(f, user_id, text, r) ==
  IF StepOf(user_id) = "text" /\ r.reply = "cancelled_command"
  THEN [kind |-> "aborted"]
  ELSE IF f.kind = "edit"
  THEN IF f.stage = "custom_time"
       THEN (IF r.reply = "ask_text" THEN [f EXCEPT !.stage = "text"] ELSE f)
       ELSE IF f.stage = "text"
       THEN (IF r.reply = "ask_drink" THEN [f EXCEPT !.stage = "drink"] ELSE f)
       ELSE IF f.stage = "drink"
       THEN [f EXCEPT !.stage = "hunger_before"]
       ELSE f
  ELSE IF f.kind = "new"
  THEN IF f.stage = "text" /\ r.reply = "ask_drink" /\ text = Strip(text)
       THEN [f EXCEPT !.stage = "drink", !.text = Some(text)]
       ELSE IF f.stage = "drink" /\ text # <<>> /\ text = Strip(text)
       THEN [f EXCEPT !.stage = "hunger_before", !.drink = Some(text)]
       ELSE OffFlow
  ELSE IF f.kind \in {"none", "off"} THEN f ELSE NoFlow

FlowOnHunger(f, user_id, hunger_type, level, r) ==
  LET value == IF level = SkipLevel THEN None ELSE ParseInt(level)
      taken == level = SkipLevel \/ value # None
  IN  IF f.kind = "edit"
      THEN IF f.stage = "hunger_before" /\ hunger_type = "before"
           THEN (IF taken THEN [f EXCEPT !.stage = "hunger_after"] ELSE f)
           ELSE IF f.stage = "hunger_after" /\ hunger_type = "after"
           THEN (IF taken
                 THEN [kind |-> "done_edit", id |-> f.id, n |-> f.n,
                       touched |-> f.touched, choice |-> f.choice,
                       reply |-> r.reply]
                 ELSE f)
           ELSE OffFlow
      ELSE IF f.kind = "new"
      THEN IF f.stage = "hunger_before" /\ hunger_type = "before" /\ InRange(value)
           THEN [f EXCEPT !.stage = "hunger_after", !.before = value]
           ELSE IF f.stage = "hunger_after" /\ hunger_type = "after" /\ InRange(value)
           THEN [kind |-> "done_new", log0 |-> f.log0, time |-> f.time,
                 text |-> f.text, drink |-> f.drink, before |-> f.before,
                 after |-> value]
           ELSE OffFlow
      ELSE IF f.kind \in {"none", "off"} THEN f ELSE NoFlow

\* A skip action, which belongs to step `step` of an edit flow.
FlowOnSkip(f, step, next, choice) ==
  IF f.kind = "edit" /\ f.stage = step
  THEN [f EXCEPT !.stage = next, !.choice = IF step = "datetime" THEN choice ELSE @]
  ELSE IF f.kind \in {"none"} THEN f ELSE OffFlow

FlowOnEditRecord(f, user_id, record_id, r) ==
  IF r.reply = "ask_edit_time"
  THEN [kind |-> "edit", stage |-> "datetime", id |-> record_id,
        n |-> Len(Log(user_id)), touched |-> FALSE, choice |-> "none"]
  ELSE IF f.kind \in {"new", "edit", "none", "off"} THEN f ELSE NoFlow

FlowOnRemove(f) ==
  IF f.kind = "edit" THEN [f EXCEPT !.touched = TRUE]
  ELSE IF f.kind = "new" THEN OffFlow
  ELSE IF f.kind \in {"none", "off"} THEN f ELSE NoFlow

\* Events that show a screen or a prompt and belong to no step.
FlowOnOther(f) ==
  IF f.kind \in {"new", "edit", "none", "off"} THEN f ELSE NoFlow

FlowStep(f, e, user_id, r) ==
  CASE e.op = "time" -> FlowOnTime(f, user_id, e.arg, r)
    [] e.op = "message" -> FlowOnMessage(f, user_id, e.arg, r)
    [] e.op = "hunger" -> FlowOnHunger(f, user_id, e.arg[3], e.arg[4], r)
    [] e.op = "skip_time" -> FlowOnSkip(f, "datetime", "text", "skip")
    [] e.op = "skip_text" -> FlowOnSkip(f, "text", "drink", "skip")
    [] e.op = "skip_drink" -> FlowOnSkip(f, "drink", "hunger_before", "skip")
    [] e.op = "edit_record" -> FlowOnEditRecord(f, user_id, e.arg, r)
    [] e.op = "confirm_remove" -> FlowOnRemove(f)
    [] e.op = "cancel" -> [kind |-> "cancelled", from |-> StepOf(user_id)]
    [] e.op \in {"edit_back", "text_back"} ->
         (IF f.kind = "none" THEN f ELSE OffFlow)
    [] OTHER -> FlowOnOther(f)

\* The outcome r of handling the event (op, arg) of a user becomes the state.
Deliver(c, op, arg, user_id, info, r) ==
  /\ RecordCount(r.files) <= c.max_records
  /\ creation_states' = r.cs
  /\ files' = r.files
  /\ user_info' = info
  /\ flow' = [flow EXCEPT ![user_id] =
                FlowStep(@, [op |-> op, arg |-> arg], user_id, r)]
  /\ UNCHANGED <<now, screen, tasks>>

Tick ==
  /\ now < MaxClock
  /\ now' = now + 1
  /\ UNCHANGED <<creation_states, user_info, files, flow, screen, tasks>>

FoodDiaryMain(c, u) ==
  \E from_user \in Profiles :
    Deliver(c, "main", None, u,
            set_user_info(user_info, u, from_user.username, from_user.first_name),
            Result(creation_states, files, "main_menu"))

FoodDiaryTimeSelection(c, u) ==
  \E time_option \in c.time_options :
    Deliver(c, "time", time_option, u, user_info,
            handle_time_selection(creation_states, files, u, time_option))

FoodDiaryAdd(c, u) ==
  Deliver(c, "add", None, u, user_info, _add_record_prompt(creation_states, files))

FoodDiaryCancelAdd(c, u) ==
  Deliver(c, "cancel", None, u, user_info,
          cancel_record_creation(creation_states, files, u))

FoodDiaryEditRecord(c, u) ==
  \E record_id \in RecordIdTokens :
    Deliver(c, "edit_record", record_id, u, user_info,
            _start_edit_record(creation_states, user_info, files, u, record_id))

FoodDiaryConfirmRemove(c, u) ==
  \E record_id \in RecordIdTokens :
    Deliver(c, "confirm_remove", record_id, u, user_info,
            _remove_record(creation_states, user_info, files, u, record_id))

FoodDiarySkipTime(c, u) ==
  Deliver(c, "skip_time", None, u, user_info,
          food_diary_skip_time(creation_states, files, u))

FoodDiaryHungerSelection(c, u) ==
  \E hunger_type \in {"before", "after"}, level \in c.levels :
    Deliver(c, "hunger", HungerToken(hunger_type, level), u, user_info,
            food_diary_hunger_selection(creation_states, user_info, files, u,
                                        HungerToken(hunger_type, level)))

FoodDiaryHungerBack(c, u) ==
  Deliver(c, "hunger_back", BackToken, u, user_info,
          food_diary_hunger_selection(creation_states, user_info, files, u,
                                      BackToken))

FoodDiarySkipText(c, u) ==
  Deliver(c, "skip_text", None, u, user_info,
          food_diary_skip_text(creation_states, files, u))

FoodDiarySkipDrink(c, u) ==
  Deliver(c, "skip_drink", None, u, user_info,
          food_diary_skip_drink(creation_states, files, u))

FoodDiaryTextBack(c, u) ==
  Deliver(c, "text_back", None, u, user_info,
          food_diary_text_back(creation_states, files, u))

FoodDiaryEditBack(c, u) ==
  Deliver(c, "edit_back", None, u, user_info,
          food_diary_edit_back(creation_states, files, u))

HandleTextInput(c, u) ==
  \E from_user \in Profiles, text \in c.messages :
    LET info == set_user_info(user_info, u, from_user.username,
                              from_user.first_name)
    IN  Deliver(c, "message", text, u, info,
                message_dispatch(creation_states, info, files, u, text))

Init ==
  /\ now = 0
  /\ creation_states = <<>>
  /\ user_info = <<>>
  /\ files = <<>>
  /\ flow = [u \in Users |-> NoFlow]
  /\ screen = NoScreen
  /\ tasks = <<>>

UserNext(c, u) ==
  \/ FoodDiaryMain(c, u)
  \/ FoodDiaryAdd(c, u)
  \/ FoodDiaryTimeSelection(c, u)
  \/ FoodDiaryCancelAdd(c, u)
  \/ FoodDiaryEditRecord(c, u)
  \/ FoodDiaryConfirmRemove(c, u)
  \/ FoodDiarySkipTime(c, u)
  \/ FoodDiaryHungerSelection(c, u)
  \/ FoodDiaryHungerBack(c, u)
  \/ FoodDiarySkipText(c, u)
  \/ FoodDiarySkipDrink(c, u)
  \/ FoodDiaryTextBack(c, u)
  \/ FoodDiaryEditBack(c, u)
  \/ HandleTextInput(c, u)

NextOf(c) == Tick \/ \E u \in c.users : UserNext(c, u)

\* The flow of one user, with every kind of input.
FlowInputs ==
  Inputs({1}, {"now", "custom", "5h"}, {<<"/">>}, {SkipLevel, <<"x">>}, MaxRecords)

Next == NextOf(FlowInputs)

Spec == Init /\ [][Next]_vars

\* The flows of one user with typed texts and numeric hunger levels, one of
\* them above the scale.
RichInputs ==
  Inputs({1}, {"now"}, {<<"e">>, <<"w">>}, {<<"3">>, <<"7">>, <<"1", "1">>},
         MaxFlowRecords)

NextFlow == NextOf(RichInputs)

SpecFlow == Init /\ [][NextFlow]_vars

\* The flows of one user with every time option a token can carry.
TimeInputs ==
  Inputs({1}, TimeOptions, {<<"e">>}, {<<"7">>}, MaxTimeRecords)

NextTime == NextOf(TimeInputs)

SpecTime == Init /\ [][NextTime]_vars

\* ------------------------------------------------------------ list screens
\* Last parts of the fd_records_<offset> and fd_edit_records_<offset> tokens.
OffsetParts ==
  { <<"0">>, <<"5">>, <<"7">>, <<"1", "0">>, <<"1", "5">>, <<"-", "5">>,
    <<"x">>, <<>> }

\* Zone names carried by fd_set_timezone_<name> tokens: two zones, a name no
\* zone has, and a blank.
ZoneTokens == {"UTC", "Asia/Dubai", "Mars/Base", " "}

TheProfile == CHOOSE from_user \in Profiles : TRUE

\* The record a new-record flow completed at second i - 1 saves when every
\* step after the time is skipped, or every step but the text ("e").
FlowRecord(i, typed) ==
  [id |-> Some(i - 1),
   datetime_utc |-> Some(IsoZ((i - 1) * TicksPerSec)),
   record |-> IF typed THEN Some(<<"e">>) ELSE None,
   hunger_before |-> None,
   hunger_after |-> None,
   drink |-> None,
   picture |-> None]

\* The store after n new-record flows of user 1, one per second, the k-th of
\* them (none when k = 0) with its text skipped.
InitView ==
  \E n \in 0..MaxViewRecords :
    \E k \in 0..n :
      LET info == set_user_info(<<>>, 1, TheProfile.username, TheProfile.first_name)
      IN  /\ now = n * TicksPerSec
          /\ creation_states = <<>>
          /\ user_info = info
          /\ files = IF n = 0 THEN <<>>
                     ELSE write_jsonl(<<>>, <<_u(info, 1), RecordsRel>>,
                                      [i \in 1..n |-> FlowRecord(i, i # k)])
          /\ flow = [u \in Users |-> NoFlow]
          /\ screen = NoScreen
          /\ tasks = <<>>

\* The event (op, arg) of a user left the outcome r and rendered a screen.
Render(op, arg, user_id, info, r, view) ==
  /\ screen' = [user |-> user_id, op |-> op, arg |-> arg, view |-> view]
  /\ user_info' = info
  /\ creation_states' = r.cs
  /\ files' = r.files
  /\ UNCHANGED <<now, flow, tasks>>

\* The outcome of a handler that reads only.
Same == Result(creation_states, files, "")

FoodDiaryRecords(u) ==
  \E from_user \in Profiles :
    LET info == set_user_info(user_info, u, from_user.username, from_user.first_name)
    IN  Render("records", None, u, info, Same, _show_records(info, files, u, 0))

FoodDiaryRecordsPagination(u) ==
  \E last_part \in OffsetParts :
    Render("records_page", last_part, u, user_info, Same,
           food_diary_records_pagination(user_info, files, u, last_part))

FoodDiaryEdit(u) ==
  Render("edit", None, u, user_info, Same,
         _edit_records_menu(user_info, files, u, 0))

FoodDiaryEditPagination(u) ==
  \E last_part \in OffsetParts :
    Render("edit_page", last_part, u, user_info, Same,
           food_diary_edit_pagination(user_info, files, u, last_part))

FoodDiarySetTimezone(u) ==
  \E timezone_str \in ZoneTokens :
    LET r == _set_timezone(creation_states, user_info, files, u, timezone_str)
    IN  Render("set_timezone", timezone_str, u, user_info, r, [kind |-> r.reply])

\* The screen a read-only handler shows becomes the screen; what the handler
\* leaves of names, drafts and files becomes the state.
Show(op, arg, user_id, s) == Render(op, arg, user_id, s.info, s, s.view)

FoodDiarySelectRecord(u) ==
  \E record_id \in RecordIdTokens :
    Show("select_record", record_id, u,
         food_diary_select_record(user_info, creation_states, files, u, record_id))

FoodDiaryRemoveRecord(u) ==
  \E record_id \in RecordIdTokens :
    Show("remove_record", record_id, u,
         food_diary_remove_record(user_info, creation_states, files, u, record_id))

FoodDiarySettings(u) ==
  Show("settings", None, u,
       food_diary_settings(user_info, creation_states, files, u))

FoodDiaryTimezoneSettings(u) ==
  Show("timezone_settings", None, u,
       food_diary_timezone_settings(user_info, creation_states, files, u))

ViewInputs == Inputs({1}, {"now"}, {}, {}, MaxViewRecords)

NextView ==
  \E u \in ViewInputs.users :
    \/ FoodDiaryRecords(u)
    \/ FoodDiaryRecordsPagination(u)
    \/ FoodDiaryEdit(u)
    \/ FoodDiaryEditPagination(u)
    \/ FoodDiarySetTimezone(u)
    \/ FoodDiarySelectRecord(u)
    \/ FoodDiaryRemoveRecord(u)
    \/ FoodDiarySettings(u)
    \/ FoodDiaryTimezoneSettings(u)
    \/ FoodDiaryTimeSelection(ViewInputs, u)

SpecView == InitView /\ [][NextView]_vars

\* ---------------------------------------------------------------- two users
\* Records the two-user specification lets the store reach.
MaxPairRecords == 2

\* food_diary_set_timezone for one zone name.
FoodDiarySetTimezoneTo(c, u, timezone_str) ==
  Deliver(c, "set_timezone", timezone_str, u, user_info,
          _set_timezone(creation_states, user_info, files, u, timezone_str))

\* The events of two users, handled one at a time in any order.
PairInputs == Inputs({1, 2}, {"now"}, {}, {SkipLevel}, MaxPairRecords)

NextPair ==
  \E u \in PairInputs.users :
    \/ FoodDiaryMain(PairInputs, u)
    \/ FoodDiaryTimeSelection(PairInputs, u)
    \/ FoodDiaryHungerSelection(PairInputs, u)
    \/ FoodDiarySetTimezoneTo(PairInputs, u, "Asia/Dubai")

SpecPair == Init /\ [][NextPair]_vars

\* ------------------------------------------------------------ custom times
\* A time of the night, typed with one-digit month and hour: in a zone east
\* of UTC its instant falls on the day before.
NightTimeText ==
  <<"2", "0", "2", "4", "-", "1", "-", "1", "6", " ", "2", ":", "0", "5">>

\* The flows of one user who types custom times and sets a timezone.
ZoneInputs ==
  Inputs({1}, {"custom"}, {ValidTimeText, NightTimeText}, {SkipLevel}, MaxTimeRecords)

NextZone ==
  \E u \in ZoneInputs.users :
    \/ FoodDiarySetTimezone(u)
    \/ FoodDiaryTimeSelection(ZoneInputs, u)
    \/ HandleTextInput(ZoneInputs, u)
    \/ FoodDiaryHungerSelection(ZoneInputs, u)

SpecZone == Init /\ [][NextZone]_vars

\* ------------------------------------------------------------- event loop
\* Handlers run as coroutines of one asyncio event loop: a coroutine keeps
\* the loop until it awaits something that is not ready. tasks holds
\*   pool       the handler coroutines that have not ended, in arrival order,
\*              each at a point pc of its code:
\*                ready            created, not started
\*                rewrite_read     records read and the new list computed
\*                rewrite_cleared  write_text("") has returned
\*                edit_text        awaiting callback.message.edit_text
\*                answer           awaiting callback.answer
\*   running    the id of the coroutine that holds the loop, 0 when none does
\*   arrived    the number of updates dispatched so far
\*   committed  the list the last storage operation that ended left as the log
\*   failure    what the last rewrite that raised left behind
\* A coroutine notes what its read of the log returned (seen), the rewrites
\* of other coroutines that were between their read and the end of their
\* append at that moment (mid), and committed at that moment (stable).
LoopUsers == {1}

\* The points at which a coroutine yields to the event loop: the awaits of
\* Telegram calls. The storage methods are declared async but do their file
\* I/O synchronously, and log_if_slow only awaits them.
Suspends_in_write_text(pc) == pc \in {"rewrite_cleared", "edit_text", "answer"}
Suspends(pc) == pc \in {"edit_text", "answer"}

\* The updates dispatched: a confirmed removal of each record and of an id no
\* record has, the records list, the hunger-after skip that ends a flow (an
\* edit-save, or the append of a new record), and the time choice "now" that
\* begins a new record.
LoopEvents ==
  { [op |-> "confirm_remove", arg |-> Some(i)] : i \in 0..LoopRecords }
    \cup { [op |-> "records", arg |-> None], [op |-> "hunger", arg |-> None],
            [op |-> "time", arg |-> None] }

NewTask(id, user_id, op, arg) ==
  [id |-> id, user |-> user_id, op |-> op, arg |-> arg, pc |-> "ready",
   before |-> <<>>, after |-> <<>>, seen |-> None, mid |-> {}, stable |-> <<>>]

RecordsPath(user_id) == <<_u(user_info, user_id), RecordsRel>>

\* The handler of task t run in one piece on the present state.
HandlerOutcome(t) ==
  CASE t.op = "confirm_remove" ->
         _remove_record(creation_states, user_info, files, t.user, t.arg)
    [] t.op = "hunger" ->
         food_diary_hunger_selection(creation_states, user_info, files, t.user,
                                     HungerToken("after", SkipLevel))
    [] t.op = "time" -> handle_time_selection(creation_states, files, t.user, "now")
    [] OTHER -> Result(creation_states, files, "records")

\* Whether the handler of t, with outcome r, clears and rewrites the log.
Rewrites(t, r) ==
  t.op = "confirm_remove" \/ (t.op = "hunger" /\ r.reply = "record_updated")

\* The rewrites other coroutines have begun and not ended on user_id's log.
MidRewrite(id, user_id) ==
  { [before |-> tasks.pool[j].before, after |-> tasks.pool[j].after] :
      j \in { k \in 1..Len(tasks.pool) :
                /\ tasks.pool[k].id # id
                /\ tasks.pool[k].user = user_id
                /\ tasks.pool[k].pc \in {"rewrite_read", "rewrite_cleared"} } }

CanRun(i) == tasks.running \in {0, tasks.pool[i].id}

\* Who holds the loop once coroutine id has reached pc.
Holder(pc, id) == IF Suspends(pc) THEN 0 ELSE id

RemoveAt(s, i) == SubSeq(s, 1, i - 1) \o SubSeq(s, i + 1, Len(s))

\* The dispatcher creates the task of an update.
Arrive(u) ==
  /\ tasks.running = 0
  /\ tasks.arrived < MaxTasks
  /\ \E e \in LoopEvents :
       tasks' = [tasks EXCEPT
                   !.arrived = @ + 1,
                   !.pool = Append(@, NewTask(tasks.arrived + 1, u, e.op, e.arg))]
  /\ UNCHANGED <<now, creation_states, user_info, files, flow, screen>>

\* A handler starts: it reads the log. One that rewrites the log has computed
\* the new list and is about to clear the file; any other runs to its
\* edit_text (an append of a new record included). before and after are the
\* log it read and the log its storage calls leave.
Begin(i) ==
  LET t == tasks.pool[i]
      r == HandlerOutcome(t)
      records == Log(t.user)
      read == [t EXCEPT !.seen = Some(records),
                        !.mid = MidRewrite(t.id, t.user),
                        !.stable = tasks.committed]
  IN  /\ CanRun(i)
      /\ t.pc = "ready"
      /\ user_info' = IF t.op = "records"
                      THEN set_user_info(user_info, t.user, TheProfile.username,
                                         TheProfile.first_name)
                      ELSE user_info
      /\ IF Rewrites(t, r)
         THEN /\ creation_states' =
                   IF t.op = "hunger"
                   THEN CompleteState(creation_states, t.user, None)
                   ELSE creation_states
              /\ files' = files
              /\ tasks' = [tasks EXCEPT
                   !.running = Holder("rewrite_read", t.id),
                   !.pool[i] = [read EXCEPT
                                  !.pc = "rewrite_read",
                                  !.before = records,
                                  !.after = _get_records(user_info, r.files, t.user)]]
         ELSE /\ creation_states' = r.cs
              /\ files' = r.files
              /\ tasks' = [tasks EXCEPT
                   !.running = Holder("edit_text", t.id),
                   !.committed = _get_records(user_info, r.files, t.user),
                   !.pool[i] = [read EXCEPT
                                  !.pc = "edit_text",
                                  !.before = records,
                                  !.after = _get_records(user_info, r.files, t.user)]]
      /\ UNCHANGED <<now, flow, screen>>

\* storage.write_text(user_id, "food_diary/records.jsonl", "")
Truncate(i) ==
  LET t == tasks.pool[i]
  IN  /\ CanRun(i)
      /\ t.pc = "rewrite_read"
      /\ files' = write_text(files, RecordsPath(t.user), <<>>)
      /\ tasks' = [tasks EXCEPT !.running = Holder("rewrite_cleared", t.id),
                                !.pool[i].pc = "rewrite_cleared"]
      /\ UNCHANGED <<now, creation_states, user_info, flow, screen>>

\* storage.write_jsonl of the new list (a removal skips it for an empty
\* list), then the rest of the tool method up to the handler's edit_text; an
\* edit-save deletes the draft.
AppendAll(i) ==
  LET t == tasks.pool[i]
  IN  /\ CanRun(i)
      /\ t.pc = "rewrite_cleared"
      /\ files' = IF t.op = "confirm_remove" /\ t.after = <<>> THEN files
                  ELSE write_jsonl(files, RecordsPath(t.user), t.after)
      /\ creation_states' = IF t.op = "hunger"
                            THEN DictDel(creation_states, t.user)
                            ELSE creation_states
      /\ tasks' = [tasks EXCEPT !.running = Holder("edit_text", t.id),
                                !.committed = t.after,
                                !.pool[i].pc = "edit_text"]
      /\ UNCHANGED <<now, user_info, flow, screen>>

\* A Telegram call has returned: edit_text is followed by answer, answer ends
\* the handler.
Resume(i) ==
  LET t == tasks.pool[i]
  IN  /\ CanRun(i)
      /\ t.pc \in {"edit_text", "answer"}
      /\ tasks' = IF t.pc = "edit_text"
                  THEN [tasks EXCEPT !.running = Holder("answer", t.id),
                                     !.pool[i].pc = "answer"]
                  ELSE [tasks EXCEPT !.running = 0, !.pool = RemoveAt(@, i)]
      /\ UNCHANGED <<now, creation_states, user_info, files, flow, screen>>

\* A storage call of a rewrite raises OSError and the handler ends there.
\* write_text fails in open, before the file is truncated; write_jsonl fails
\* in open or after it has written some of the lines.
Fail(i) ==
  LET t == tasks.pool[i]
      p == RecordsPath(t.user)
  IN  /\ CanRun(i)
      /\ \/ /\ t.pc = "rewrite_read"
            /\ files' = files
         \/ /\ t.pc = "rewrite_cleared"
            /\ t.after # <<>>
            /\ \E k \in 0..(Len(t.after) - 1) :
                 files' = write_jsonl(files, p, SubSeq(t.after, 1, k))
      /\ tasks' = [tasks EXCEPT
                     !.running = 0,
                     !.committed = read_jsonl(files', p),
                     !.failure = Some([before |-> t.before, after |-> t.after,
                                       left |-> read_jsonl(files', p)]),
                     !.pool = RemoveAt(@, i)]
      /\ UNCHANGED <<now, creation_states, user_info, flow, screen>>

\* The draft of an edit of record_id taken to step hunger_after: the time
\* skipped, the text typed, the drink and the hunger before skipped.
EditDraft(info, f, user_id, record_id) ==
  LET a == _start_edit_record(<<>>, info, f, user_id, record_id).cs
      b == food_diary_skip_time(a, f, user_id).cs
      c == handle_text_input(b, f, user_id, <<"w">>).cs
      d == food_diary_skip_drink(c, f, user_id).cs
  IN  food_diary_hunger_selection(d, info, f, user_id,
                                  HungerToken("before", SkipLevel)).cs

\* The user has stored LoopRecords records and is at the last step of an edit
\* of the first.
InitLoop ==
  \E u \in LoopUsers :
    LET info == set_user_info(<<>>, u, TheProfile.username, TheProfile.first_name)
        log == [i \in 1..LoopRecords |-> FlowRecord(i, TRUE)]
        f == write_jsonl(<<>>, <<_u(info, u), RecordsRel>>, log)
    IN  /\ now = LoopRecords * TicksPerSec
        /\ creation_states = EditDraft(info, f, u, Some(0))
        /\ user_info = info
        /\ files = f
        /\ flow = [x \in Users |-> NoFlow]
        /\ screen = NoScreen
        /\ tasks = [running |-> 0, arrived |-> 0, pool |-> <<>>,
                    committed |-> log, failure |-> None]

NextLoop ==
  \/ \E u \in LoopUsers : Arrive(u)
  \/ \E i \in 1..Len(tasks.pool) : Begin(i)
  \/ \E i \in 1..Len(tasks.pool) : Truncate(i)
  \/ \E i \in 1..Len(tasks.pool) : AppendAll(i)
  \/ \E i \in 1..Len(tasks.pool) : Resume(i)
  \/ \E i \in 1..Len(tasks.pool) : Fail(i)

SpecLoop == InitLoop /\ [][NextLoop]_vars

\* -------------------------------------------------------------- notes tool
\* Notes the notes specification lets one user's log reach.
MaxNotes == 22
\* Notes a listing shows at most: notes[-20:].
NotesListed == 20

NotesRel == "notes/notes.jsonl"

\* _NotesTool.handle that lists the first notes of the log, not the last.
handle_lists_oldest(info, f, user_id, command, args) ==
  LET p == <<_u(info, user_id), NotesRel>>
  IN  IF command = "note_add"
      THEN IF Strip(args) = <<>> THEN [files |-> f, reply |-> [kind |-> "usage"]]
           ELSE [files |-> write_jsonl(f, p, << [ts |-> Some(IsoZ(now)),
                                                 text |-> Some(Strip(args))] >>),
                 reply |-> [kind |-> "notes_saved"]]
      ELSE IF command = "note_list"
      THEN LET notes == read_jsonl(f, p)
           IN  IF notes = <<>> THEN [files |-> f, reply |-> [kind |-> "notes_empty"]]
               ELSE [files |-> f,
                     reply |-> [kind |-> "lines",
                                lines |-> PySlice(notes, 0, NotesListed)]]
      ELSE [files |-> f, reply |-> [kind |-> "unknown_command"]]

\* _NotesTool.handle: the files it leaves and its reply; the reply of a
\* listing is the notes its lines show, in their order.
handle(info, f, user_id, command, args) ==
  LET p == <<_u(info, user_id), NotesRel>>
  IN  IF command = "note_add"
      THEN IF Strip(args) = <<>> THEN [files |-> f, reply |-> [kind |-> "usage"]]
           ELSE [files |-> write_jsonl(f, p, << [ts |-> Some(IsoZ(now)),
                                                 text |-> Some(Strip(args))] >>),
                 reply |-> [kind |-> "notes_saved"]]
      ELSE IF command = "note_list"
      THEN LET notes == read_jsonl(f, p)
           IN  IF notes = <<>> THEN [files |-> f, reply |-> [kind |-> "notes_empty"]]
               ELSE [files |-> f,
                     reply |-> [kind |-> "lines",
                                lines |-> PySlice(notes, -NotesListed, Len(notes))]]
      ELSE [files |-> f, reply |-> [kind |-> "unknown_command"]]

\* The message handler of /note_add: arg_text is what follows the command.
NoteAdd(u) ==
  \E arg_text \in { <<>>, <<" ">>, <<" ", "a", " ">>, <<"a">> } :
    LET r == handle(user_info, files, u, "note_add", arg_text)
    IN  /\ Len(read_jsonl(r.files, <<_u(user_info, u), NotesRel>>)) <= MaxNotes
        /\ Render("note_add", arg_text, u, user_info,
                  Result(creation_states, r.files, ""), r.reply)

\* The message handler of /note_list.
NoteList(u) ==
  LET r == handle(user_info, files, u, "note_list", <<>>)
  IN  Render("note_list", <<>>, u, user_info,
             Result(creation_states, r.files, ""), r.reply)

\* The store after n notes of user 1, the i-th added at instant i - 1.
InitNotes ==
  \E n \in 0..MaxNotes :
    /\ now = n
    /\ creation_states = <<>>
    /\ user_info = <<>>
    /\ files = IF n = 0 THEN <<>>
               ELSE write_jsonl(<<>>, <<_u(<<>>, 1), NotesRel>>,
                                [i \in 1..n |-> [ts |-> Some(IsoZ(i - 1)),
                                                 text |-> Some(<<"n">>)]])
    /\ flow = [u \in Users |-> NoFlow]
    /\ screen = NoScreen
    /\ tasks = <<>>

NextNotes == NoteAdd(1) \/ NoteList(1)

SpecNotes == InitNotes /\ [][NextNotes]_vars

\* ------------------------------------------------------------------ claims
RecordsFiles == { p \in DOMAIN files : p[2] = RecordsRel }

\* C1: with no draft, the events time=now, text T, drink D, hunger_before B,
\* hunger_after A (T, D non-empty, B and A in 1..10) append exactly one record
\* to the end of the user's log, holding the selected instant, T, D, B and A;
\* the records already in the log stay as they were, in the same order.
C1_NewFlowAppendsTheRecord ==
  \A u \in Users :
    flow[u].kind = "done_new" =>
      LET d == flow[u]
          log == Log(u)
      IN  /\ Len(log) = Len(d.log0) + 1
          /\ SubSeq(log, 1, Len(d.log0)) = d.log0
          /\ log[Len(log)].datetime_utc = d.time
          /\ log[Len(log)].record = d.text
          /\ Get(log[Len(log)], "drink") = d.drink
          /\ log[Len(log)].hunger_before = d.before
          /\ log[Len(log)].hunger_after = d.after

\* C2: an edit flow started on an existing record and completed through
\* hunger_after leaves the log with as many records as it had, whatever was
\* chosen at the datetime step.
C2_EditNeverDuplicates ==
  \A u \in Users :
    (flow[u].kind = "done_edit" /\ ~flow[u].touched) =>
      Len(Log(u)) = flow[u].n

\* C3: no two records of one log have the same id.
C3_RecordIdsUnique ==
  \A p \in RecordsFiles :
    \A i, j \in 1..Len(files[p]) :
      JsonLoads(files[p][i]).id = JsonLoads(files[p][j]).id => i = j

\* The outcome r leaves the drafts and the files as they are.
NoEffect(r) == r.cs = creation_states /\ r.files = files

\* C4: an input of a step other than the draft's current step changes neither
\* the draft nor the record log: a hunger token of the other hunger step or of
\* no hunger step, a skip-text or skip-drink token out of turn, a typed
\* message in a hunger step.
C4_StepGating ==
  \A u \in DOMAIN creation_states :
    LET step == creation_states[u].step
    IN  /\ \A hunger_type \in {"before", "after"}, level \in LevelStrings :
             step # "hunger_" \o hunger_type =>
               NoEffect(food_diary_hunger_selection(creation_states, user_info,
                          files, u, HungerToken(hunger_type, level)))
        /\ step # "text" => NoEffect(food_diary_skip_text(creation_states, files, u))
        /\ step # "drink" => NoEffect(food_diary_skip_drink(creation_states, files, u))
        /\ step \in {"hunger_before", "hunger_after"} =>
             \A text \in Messages :
               NoEffect(message_dispatch(creation_states, user_info, files, u, text))

\* C5: a message whose text starts with "/", received while the draft is in
\* step text, removes the draft and writes nothing: every file is as it was.
C5_SlashMessageAbortsDraft ==
  \A u \in Users :
    /\ StepOf(u) = "text" =>
         \A text \in Messages \cup {<<"/">>}, from_user \in Profiles :
           StartsWithSlash(text) =>
             LET info == set_user_info(user_info, u, from_user.username,
                                       from_user.first_name)
                 r == message_dispatch(creation_states, info, files, u, text)
             IN  /\ u \notin DOMAIN r.cs
                 /\ r.files = files
                 /\ r.reply = "cancelled_command"
    /\ flow[u].kind = "aborted" => u \notin DOMAIN creation_states

C5_Witness ==
  \E u \in Users :
    /\ flow[u].kind = "aborted"
    /\ u \notin DOMAIN creation_states
    /\ Len(Log(u)) >= 1

\* C6: the cancel action is accepted in every draft state; after it the user
\* has no draft and every file is as it was.
C6_CancelFromAnyState ==
  \A u \in Users :
    /\ u \in FlowInputs.users => ENABLED FoodDiaryCancelAdd(FlowInputs, u)
    /\ LET r == cancel_record_creation(creation_states, files, u)
       IN  u \notin DOMAIN r.cs /\ r.files = files
    /\ flow[u].kind = "cancelled" => u \notin DOMAIN creation_states

C6_Witness ==
  \E u \in Users :
    /\ flow[u].kind = "cancelled"
    /\ flow[u].from = "hunger_after"
    /\ u \notin DOMAIN creation_states
    /\ Len(Log(u)) >= 1

\* The positions of the records of a log that carry an id.
Positions(records, record_id) ==
  { i \in 1..Len(records) : records[i].id = record_id }

\* C7: a confirmed deletion of id X from a log of N records leaves N-1
\* records, none with id X, the others as they were and in their order; the
\* deletion of an id the log does not hold leaves the log as it was.
C7_DeletionRemovesOneRecord ==
  \A u \in Users, record_id \in RecordIdTokens :
    LET records == Log(u)
        r == _remove_record(creation_states, user_info, files, u, record_id)
        after == _get_records(user_info, r.files, u)
    IN  IF Positions(records, record_id) = {} THEN after = records
        ELSE /\ Len(after) = Len(records) - 1
             /\ Positions(after, record_id) = {}
             /\ \E i \in Positions(records, record_id) :
                  after = SubSeq(records, 1, i - 1)
                            \o SubSeq(records, i + 1, Len(records))

\* C8: saving an edit whose editing_record_id is not in the user's log
\* reports an error and writes nothing: every file is as it was.
C8_VanishedEditTargetWritesNothing ==
  \A u \in DOMAIN creation_states :
    LET state == creation_states[u]
    IN  (state.editing_record_id # None
           /\ Positions(Log(u), state.editing_record_id) = {}) =>
          /\ LET r == _save_complete_record(creation_states, user_info, files, u)
             IN  r.reply = "edit_target_not_found" /\ r.files = files
          /\ \A level \in LevelStrings :
               (level = SkipLevel \/ ParseInt(level) # None) =>
                 LET r == food_diary_hunger_selection(creation_states, user_info,
                            files, u, HungerToken("after", level))
                 IN  r.reply = "edit_target_not_found" /\ r.files = files

C8_Witness ==
  \E u \in Users :
    /\ flow[u].kind = "done_edit"
    /\ flow[u].touched
    /\ flow[u].reply = "edit_target_not_found"
    /\ Positions(Log(u), flow[u].id) = {}
    /\ Len(Log(u)) >= 1

\* C9: once a hunger-after input has been handled the user has no draft, on
\* the new-record path and on the edit path; no draft is ever left in step
\* complete.
C9_CompleteIsTransient ==
  \A u \in Users :
    /\ flow[u].kind \in {"done_new", "done_edit"} => u \notin DOMAIN creation_states
    /\ StepOf(u) # "complete"

\* hunger_before and hunger_after of a draft or a record: absent or in 1..10.
HungerOk(o) == o = None \/ o[1] \in 1..10

\* C10: hunger_before and hunger_after of every stored record and of every
\* draft are absent or an integer in 1..10.
C10_HungerRange ==
  /\ \A u \in DOMAIN creation_states :
       /\ HungerOk(creation_states[u].hunger_before)
       /\ HungerOk(creation_states[u].hunger_after)
  /\ \A p \in RecordsFiles :
       \A i \in 1..Len(files[p]) :
         /\ HungerOk(JsonLoads(files[p][i]).hunger_before)
         /\ HungerOk(JsonLoads(files[p][i]).hunger_after)

\* Offsets from the first page to beyond the longest log.
Offsets == 0..(MaxViewRecords + PageSize)

\* The records at positions o .. min(o + PageSize, N) - 1 of a log, positions
\* counted from 0.
PageOf(records, o) ==
  [i \in 1..Max(Min(o + PageSize, Len(records)) - o, 0) |-> records[o + i]]

\* C11: for a log of N records and an offset o >= 0 the page displayed by the
\* records list and by the edit list is exactly the records at positions
\* o .. min(o+5, N)-1, oldest first, and it is empty, without an error, when
\* o >= N.
C11_PageIsTheSlice ==
  \A u \in Users, o \in Offsets :
    LET records == Log(u)
        shown == _show_records(user_info, files, u, o)
        menu == _edit_records_menu(user_info, files, u, o)
    IN  records # <<>> =>
          /\ shown.kind = "records"
          /\ shown.display_records = PageOf(records, o)
          /\ menu.kind = "edit_records"
          /\ menu.display_records = PageOf(records, o)

\* C17: formatting a stored instant for display never raises; with no
\* timezone preference the rendering carries the label UTC, with a preference
\* that names no known zone it is the first 16 characters of the stored value.
C17_FormattingNeverRaises ==
  \A u \in Users :
    LET records == Log(u)
        user_timezone == _get_user_timezone(user_info, files, u)
    IN  \A i \in 1..Len(records) :
          records[i].datetime_utc # None =>
            \A tz \in {user_timezone, None, Some("Mars/Base")} :
              LET shown == _format_time_for_user(records[i].datetime_utc, tz)
                  minute == records[i].datetime_utc[1].inst \div Minutes(1)
              IN  /\ shown # None
                  /\ tz = None =>
                       shown[1] = [form |-> "utc", minute |-> minute, label |-> "UTC"]
                  /\ (tz # None /\ ZoneInfo(tz[1]) = None) =>
                       shown[1] = [form |-> "raw16", minute |-> minute, label |-> ""]

C17_Witness ==
  /\ screen.op = "records"
  /\ screen.view.kind = "records"
  /\ _get_user_timezone(user_info, files, screen.user) = Some("Mars/Base")
  /\ \A i \in 1..Len(screen.view.lines) : screen.view.lines[i].time.form = "raw16"

\* C18: setting the timezone preference leaves every stored record and the
\* user's draft as they were; only the value the timezone get returns changes.
C18_SetTimezoneFrame ==
  \A u \in Users, timezone_str \in ZoneTokens :
    LET r == _set_timezone(creation_states, user_info, files, u, timezone_str)
        p == <<_u(user_info, u), TimezoneRel>>
    IN  /\ r.cs = creation_states
        /\ DOMAIN r.files = DOMAIN files \cup {p}
        /\ \A q \in DOMAIN files \ {p} : r.files[q] = files[q]
        /\ _get_records(user_info, r.files, u) = Log(u)
        /\ _get_user_timezone(user_info, r.files, u)
             = IF StripName(timezone_str) = "" THEN None
               ELSE Some(StripName(timezone_str))

C18_Witness ==
  /\ screen.op = "set_timezone"
  /\ screen.arg = "Asia/Dubai"
  /\ _get_user_timezone(user_info, files, screen.user) = Some("Asia/Dubai")
  /\ screen.user \in DOMAIN creation_states
  /\ Len(Log(screen.user)) >= 1

C12_RewriteWithReadIsNoOp ==
  \A u \in Users :
    LET p == <<_u(user_info, u), RecordsRel>>
        once == RewriteAll(files, p, Log(u))
        twice == RewriteAll(once, p, read_jsonl(once, p))
    IN  /\ read_jsonl(once, p) = Log(u)
        /\ twice = once
        /\ \A q \in DOMAIN once \ {p} : q \in DOMAIN files /\ once[q] = files[q]
        /\ \A record_id \in RecordIdTokens :
             (\A i \in 1..Len(Log(u)) : Log(u)[i].id # record_id) =>
               _get_records(user_info,
                 _remove_record(creation_states, user_info, files, u, record_id).files,
                 u) = Log(u)

\* An edit-save has just rewritten a log that holds MaxRecords records, and
\* the log still holds them all.
C12_Witness ==
  \E u \in Users :
    /\ flow[u].kind = "done_edit"
    /\ flow[u].reply = "record_updated"
    /\ Len(Log(u)) = MaxRecords

\* C13: no partial rewrite is observable. While a deletion or an edit-save is
\* between its read of the log and the end of its append, its coroutine holds
\* the event loop, so no other handler runs; every read of the log by a
\* handler returns a complete list: the list before or after each rewrite in
\* progress at that moment, and with none in progress the list the last
\* storage operation that ended left.
C13_NoPartialRewriteObserved ==
  \A i \in 1..Len(tasks.pool) :
    LET t == tasks.pool[i]
    IN  /\ t.pc \in {"rewrite_read", "rewrite_cleared"} => tasks.running = t.id
        /\ t.seen # None =>
             /\ \A m \in t.mid : t.seen[1] \in {m.before, m.after}
             /\ t.mid = {} => t.seen[1] = t.stable

\* A rewrite has cleared the file and not yet appended: the log on disk is
\* empty, neither the list before nor the list after, while the handler of a
\* records list of the same user waits for the loop.
C13_Witness ==
  \E i, j \in 1..Len(tasks.pool) :
    /\ tasks.pool[i].pc = "rewrite_cleared"
    /\ tasks.pool[i].before # <<>>
    /\ tasks.pool[i].after # <<>>
    /\ Log(tasks.pool[i].user) = <<>>
    /\ tasks.pool[j].user = tasks.pool[i].user
    /\ tasks.pool[j].op = "records"
    /\ tasks.pool[j].pc = "ready"

\* C14: when a storage call of the rewrite done by an edit-save or a deletion
\* raises, the log left behind is the full list before the operation or the
\* full new list.
C14_FailedRewriteKeepsLog ==
  tasks.failure # None =>
    tasks.failure[1].left \in {tasks.failure[1].before, tasks.failure[1].after}

\* Minutes subtracted for each time choice, as the specification lists them.
C15_Minutes ==
  [now |-> 0, 30m |-> 30, 1h |-> 60, 2h |-> 120, 3h |-> 180, 4h |-> 240]

\* C15: for each time choice in {now, 30m, 1h, 2h, 3h, 4h} the datetime_utc
\* placed in the draft is the instant read when the choice is handled minus
\* 0, 30, 60, 120, 180, 240 minutes, and the record a new flow stores carries
\* the instant its time choice placed; any other option that is not "custom"
\* is rejected and leaves the drafts and the files as they were.
C15_TimeChoiceOffsets ==
  \A u \in Users :
    /\ \A time_option \in TimeOptions \ {"custom"} :
         LET r == handle_time_selection(creation_states, files, u, time_option)
         IN  IF time_option \in DOMAIN C15_Minutes
             THEN /\ u \in DOMAIN r.cs
                  /\ r.cs[u].datetime_utc # None
                  /\ r.cs[u].datetime_utc[1].inst
                       = now - C15_Minutes[time_option] * 60 * TicksPerSec
                  /\ r.files = files
             ELSE /\ r.cs = creation_states
                  /\ r.files = files
                  /\ r.reply = "invalid_time_selection"
    /\ (flow[u].kind = "new" /\ flow[u].stage = "text") =>
         (StepOf(u) = "text" /\ creation_states[u].datetime_utc = flow[u].time)
    /\ flow[u].kind = "done_new" =>
         (/\ Len(Log(u)) >= 1
          /\ Log(u)[Len(Log(u))].datetime_utc = flow[u].time)

\* A new flow begun with the choice "1h" has stored its record: the record's
\* instant is one hour before the clock read at the choice.
C15_Witness ==
  \E u \in Users :
    /\ flow[u].kind = "done_new"
    /\ Len(Log(u)) = 1
    /\ Log(u)[1].datetime_utc # None
    /\ Log(u)[1].datetime_utc[1].inst \in {t - Hours(1) : t \in 0..now}

\* C16: with no timezone preference set, the well-formed custom time input
\* "2024-01-15 14:30" typed in step custom_time moves the draft to step text
\* with datetime_utc "2024-01-15T14:30:00Z": that instant, written with no
\* offset and one "Z".
C16_CustomTimeIsUtcZ ==
  \A u \in Users :
    (StepOf(u) = "custom_time" /\ _get_user_timezone(user_info, files, u) = None) =>
      LET r == handle_custom_time_input(creation_states, user_info, files, u,
                                        ValidTimeText)
      IN  /\ u \in DOMAIN r.cs
          /\ r.cs[u].step = "text"
          /\ r.cs[u].datetime_utc =
               Some([inst |-> Minutes(MinutesSinceEpoch(Epoch)), offset |-> "", z |-> "Z"])

\* C20: a back action received in step hunger_before returns the draft to step
\* text, and one received in step hunger_after returns it to step
\* hunger_before.
C20_BackReturnsToPreviousStep ==
  \A u \in Users :
    LET r == food_diary_hunger_selection(creation_states, user_info, files, u,
                                         BackToken)
    IN  /\ StepOf(u) = "hunger_before" =>
             (u \in DOMAIN r.cs /\ r.cs[u].step = "text")
        /\ StepOf(u) = "hunger_after" =>
             (u \in DOMAIN r.cs /\ r.cs[u].step = "hunger_before")

\* C21: the log is written only in response to a hunger-after input handled
\* while the draft is in step hunger_after, and a draft moves to drink only
\* from text, to hunger_before only from drink, to hunger_after only from
\* hunger_before.
C21_FlowOrder ==
  \A u \in Users :
    /\ \A hunger_type \in {"before", "after"}, level \in LevelStrings :
         LET r == food_diary_hunger_selection(creation_states, user_info, files, u,
                                              HungerToken(hunger_type, level))
         IN  /\ r.files # files =>
                  (StepOf(u) = "hunger_after" /\ hunger_type = "after")
             /\ (u \in DOMAIN r.cs /\ r.cs[u].step = "hunger_after"
                   /\ StepOf(u) # "hunger_after") => StepOf(u) = "hunger_before"
    /\ LET r == food_diary_skip_text(creation_states, files, u)
       IN  (u \in DOMAIN r.cs /\ r.cs[u].step = "drink" /\ StepOf(u) # "drink") =>
             StepOf(u) = "text"
    /\ LET r == food_diary_skip_drink(creation_states, files, u)
       IN  (u \in DOMAIN r.cs /\ r.cs[u].step = "hunger_before"
              /\ StepOf(u) # "hunger_before") => StepOf(u) = "drink"

\* C22: when the hunger-after input of an edit of record X saves the edit, the
\* log keeps its length and order, every record but the one at X's position
\* (the first with id X) is unchanged, and that record keeps its id and its
\* picture and carries the draft's datetime_utc, text, drink, hunger_before
\* and the hunger_after just given.
C22_EditChangesOnlyTarget ==
  \A u \in DOMAIN creation_states :
    \A level \in LevelStrings :
      LET state == creation_states[u]
          old == Log(u)
          r == food_diary_hunger_selection(creation_states, user_info, files, u,
                                           HungerToken("after", level))
          new == _get_records(user_info, r.files, u)
          x == IndexOfId(old, state.editing_record_id, 1)
      IN  r.reply = "record_updated" =>
            /\ state.editing_record_id # None
            /\ x \in 1..Len(old)
            /\ Len(new) = Len(old)
            /\ \A j \in 1..Len(old) : j # x => new[j] = old[j]
            /\ DOMAIN new[x] = DOMAIN old[x]
            /\ new[x].id = old[x].id
            /\ new[x].id = state.editing_record_id
            /\ new[x].picture = old[x].picture
            /\ new[x].datetime_utc = state.datetime_utc
            /\ new[x].record = state.record_text
            /\ new[x].drink = state.drink
            /\ new[x].hunger_before = state.hunger_before
            /\ new[x].hunger_after =
                 (IF level = SkipLevel THEN None ELSE ParseInt(level))

\* An edit of the second of two records has been saved: the first record has
\* another id and the log still holds both.
C22_Witness ==
  \E u \in Users :
    /\ flow[u].kind = "done_edit"
    /\ flow[u].reply = "record_updated"
    /\ Len(Log(u)) = 2
    /\ Log(u)[2].id = flow[u].id
    /\ Log(u)[1].id # flow[u].id

\* Texts strptime("%Y-%m-%d %H:%M") refuses: nothing, a command, a word, a
\* date alone, month 13, the 30th of February, hour 24.
C23_BadTexts ==
  { <<>>, <<"/">>, <<" ", "e", " ">>, SubSeq(ValidTimeText, 1, 10),
    [ValidTimeText EXCEPT ![6] = "1", ![7] = "3"],
    [ValidTimeText EXCEPT ![7] = "2", ![9] = "3", ![10] = "0"],
    [ValidTimeText EXCEPT ![12] = "2", ![13] = "4"] }

C24_EmptyTextRejected ==
  \A u \in Users :
    StepOf(u) = "text" =>
      \A from_user \in Profiles, text \in { <<>>, <<" ">>, <<" ", " ">> } :
        LET info == set_user_info(user_info, u, from_user.username,
                                  from_user.first_name)
            r == message_dispatch(creation_states, info, files, u, text)
        IN  /\ r.reply = "please_enter_text"
            /\ r.cs = creation_states
            /\ r.files = files

\* A draft that carries a time waits for its text while the user's name is
\* registered and a record is stored.
C24_Witness ==
  \E u \in Users :
    /\ StepOf(u) = "text"
    /\ creation_states[u].datetime_utc # None
    /\ u \in DOMAIN user_info
    /\ Len(Log(u)) >= 1

\* C25: a custom time input handled while the stored timezone preference
\* names no known zone raises nothing: the tool answers with the prompt for
\* the text (draft in step text) or with the re-prompt for the time (drafts
\* unchanged).
C25_UnknownZoneDoesNotFail ==
  \A u \in Users :
    LET user_timezone == _get_user_timezone(user_info, files, u)
    IN  (user_timezone # None /\ ZoneInfo(user_timezone[1]) = None) =>
          \A text \in {ValidTimeText, <<"/">>} :
            LET r == handle_custom_time_input(creation_states, user_info, files,
                                              u, text)
            IN  \/ r.reply = "ask_text" /\ r.cs[u].step = "text"
                \/ r.reply = "invalid_time_format" /\ r.cs = creation_states

\* The outcomes of every step input of user u: a typed message, the hunger
\* tokens and the back token, skip-time, skip-text, skip-drink, text-back.
C26_StepInputOutcomes(u) ==
  { message_dispatch(creation_states, user_info, files, u, text) :
      text \in Messages }
    \cup { food_diary_hunger_selection(creation_states, user_info, files, u, parts) :
             parts \in { HungerToken(hunger_type, level) :
                           hunger_type \in {"before", "after"},
                           level \in LevelStrings } \cup {BackToken} }
    \cup { food_diary_skip_time(creation_states, files, u),
           food_diary_skip_text(creation_states, files, u),
           food_diary_skip_drink(creation_states, files, u),
           food_diary_text_back(creation_states, files, u) }

\* C26: a step input received when the user has no draft is answered with an
\* error message, raises nothing, creates no draft and writes no file.
C26_NoDraftIsAnError ==
  \A u \in Users :
    u \notin DOMAIN creation_states =>
      \A r \in C26_StepInputOutcomes(u) :
        /\ r.reply = "no_active_creation"
        /\ r.cs = creation_states
        /\ r.files = files

\* C27: the log and the timezone preference are keyed by the user's identity
\* only: whatever name is registered for the user next, the log reads as it
\* does now and so does the preference.
C27_KeyedByUserOnly ==
  \A u \in Users :
    \A from_user \in Profiles :
      LET info == set_user_info(user_info, u, from_user.username,
                                from_user.first_name)
      IN  /\ _get_records(info, files, u) = Log(u)
          /\ _get_user_timezone(info, files, u)
               = _get_user_timezone(user_info, files, u)

\* C28: after the 'add' command the user has a draft in step datetime with no
\* editing_record_id; after 'edit record X' for a stored X the user has a
\* draft in step datetime with editing_record_id X and X's fields; 'edit
\* record X' for an X that is not stored creates no draft.
C28_EntryPointsCreateDraft ==
  \A u \in Users :
    /\ LET r == _add_record_prompt(creation_states, files)
       IN  /\ u \in DOMAIN r.cs
           /\ r.cs[u].step = "datetime"
           /\ r.cs[u].editing_record_id = None
    /\ \A record_id \in RecordIdTokens :
         LET r == _start_edit_record(creation_states, user_info, files, u, record_id)
             x == IndexOfId(Log(u), record_id, 1)
         IN  IF x # 0
             THEN /\ u \in DOMAIN r.cs
                  /\ r.cs[u].step = "datetime"
                  /\ r.cs[u].editing_record_id = record_id
                  /\ r.cs[u].datetime_utc = Log(u)[x].datetime_utc
                  /\ r.cs[u].record_text = Log(u)[x].record
                  /\ r.cs[u].drink = Log(u)[x].drink
                  /\ r.cs[u].hunger_before = Log(u)[x].hunger_before
                  /\ r.cs[u].hunger_after = Log(u)[x].hunger_after
             ELSE r.cs = creation_states

\* Offset parts of pagination tokens that lie outside a log of at most
\* MaxViewRecords records: negative ones and one beyond the end.
C29_OutOfRangeParts ==
  { <<"-", "1">>, <<"-", "3">>, <<"-", "5">>, <<"9", "9">> }

\* C29: for a non-empty log, a pagination token whose offset is negative or
\* beyond the end of the log shows an empty page and raises no error, in the
\* records list and in the edit list.
C29_OutOfRangeIsEmptyPage ==
  \A u \in Users, last_part \in C29_OutOfRangeParts :
    Log(u) # <<>> =>
      LET shown == food_diary_records_pagination(user_info, files, u, last_part)
          menu == food_diary_edit_pagination(user_info, files, u, last_part)
      IN  /\ shown # ExceptionScreen
          /\ shown.display_records = <<>>
          /\ menu # ExceptionScreen
          /\ menu.display_records = <<>>

\* C30: a failure of a store call is never turned into a normal result: when
\* the read of a stored timezone preference raises, the tool's timezone get
\* answers neither "no timezone set" nor a timezone.
C30_StoreFailureNotSwallowed ==
  \A u \in Users :
    _get_user_timezone(user_info, files, u) # None =>
      LET answered == TimezoneOfRead([ok |-> FALSE, text |-> ""])
      IN  answered \notin {None} \cup { Some(name) : name \in ZoneTokens }

\* Minutes east of UTC of the zones that keep one offset all year.
C31_Offsets == ("UTC" :> 0) @@ ("Asia/Dubai" :> 240) @@ ("Asia/Tokyo" :> 540)

\* Well-formed custom time texts, with the minute of the epoch's calendar
\* each names: 2024-01-15 14:30 is minute 0, 2024-01-16 02:05 is 11 h 35 min
\* later.
C31_Typed ==
  { [text |-> ValidTimeText, minute |-> 0], [text |-> NightTimeText, minute |-> 695] }

\* C31: with a timezone preference of fixed UTC offset k, a well-formed custom
\* time input x is stored as the instant x minus k (not the wall-clock time x
\* when k is not 0), and formatting the stored value for the same user shows
\* x again, in the user's zone.
C31_CustomTimeRoundTrip ==
  \A u \in Users, zone \in DOMAIN C31_Offsets, x \in C31_Typed :
    LET f == _set_timezone(creation_states, user_info, files, u, zone).files
        r == handle_custom_time_input(creation_states, user_info, f, u, x.text)
        k == C31_Offsets[zone]
    IN  /\ r.reply = "ask_text"
        /\ u \in DOMAIN r.cs
        /\ r.cs[u].step = "text"
        /\ r.cs[u].datetime_utc # None
        /\ r.cs[u].datetime_utc[1].inst = Minutes(x.minute - k)
        /\ k # 0 => r.cs[u].datetime_utc[1].inst # Minutes(x.minute)
        /\ _format_time_for_user(r.cs[u].datetime_utc,
                                 _get_user_timezone(user_info, f, u))
             = Some([form |-> "local", minute |-> x.minute, label |-> ""])

\* A user whose preference is Asia/Dubai has stored a record whose time was
\* typed as 2024-01-15 14:30: the record holds the instant four hours
\* earlier, and the user is shown 14:30.
C31_Witness ==
  \E u \in Users :
    /\ _get_user_timezone(user_info, files, u) = Some("Asia/Dubai")
    /\ Len(Log(u)) = 1
    /\ Log(u)[1].datetime_utc = Some(IsoZ(Minutes(0 - 240)))
    /\ _format_time_for_user(Log(u)[1].datetime_utc, Some("Asia/Dubai"))
         = Some([form |-> "local", minute |-> 0, label |-> ""])

\* What belongs to user v in a state (info, cs, f): the registered names, the
\* draft, and the files of every folder that carries v's id.
C32_Part(info, cs, f, v) ==
  [info |-> IF v \in DOMAIN info THEN Some(info[v]) ELSE None,
   draft |-> IF v \in DOMAIN cs THEN Some(cs[v]) ELSE None,
   files |-> [p \in { q \in DOMAIN f : q[1][2] = v } |-> f[p]]]

\* An event of u, with outcome r and registered names info when handled in
\* the present state, and outcome r0 and names info0 when handled in the state
\* info0 was taken from, in which v has nothing: v's part, log and preference
\* are as before the event, and u's part does not depend on what v has.
C32_Isolated(u, v, info, r, info0, r0) ==
  /\ C32_Part(info, r.cs, r.files, v) = C32_Part(user_info, creation_states, files, v)
  /\ _get_records(info, r.files, v) = Log(v)
  /\ _get_user_timezone(info, r.files, v) = _get_user_timezone(user_info, files, v)
  /\ C32_Part(info, r.cs, r.files, u) = C32_Part(info0, r0.cs, r0.files, u)
  /\ _get_records(info, r.files, u) = _get_records(info0, r0.files, u)
  /\ _get_user_timezone(info, r.files, u) = _get_user_timezone(info0, r0.files, u)

\* C32: an event of user u never creates, changes or removes what another
\* user v has (draft, record log, timezone preference), and what it leaves u
\* with is what it leaves u with when v has nothing at all; so under every
\* interleaving each user's state is the one its own events produce.
C32_CrossUserIsolation ==
  \A u \in Users : \A v \in Users \ {u} :
    LET cs0 == DictDel(creation_states, v)
        info0 == DictDel(user_info, v)
        f0 == [p \in { q \in DOMAIN files : q[1][2] # v } |-> files[p]]
        named == set_user_info(user_info, u, TheProfile.username, TheProfile.first_name)
        named0 == set_user_info(info0, u, TheProfile.username, TheProfile.first_name)
    IN  /\ C32_Isolated(u, v, named, Result(creation_states, files, ""),
                        named0, Result(cs0, f0, ""))
        /\ \A text \in Messages :
             C32_Isolated(u, v,
               named, message_dispatch(creation_states, named, files, u, text),
               named0, message_dispatch(cs0, named0, f0, u, text))
        /\ \A time_option \in TimeOptions :
             C32_Isolated(u, v,
               user_info, handle_time_selection(creation_states, files, u, time_option),
               info0, handle_time_selection(cs0, f0, u, time_option))
        /\ \A parts \in { HungerToken(hunger_type, level) :
                            hunger_type \in {"before", "after"},
                            level \in LevelStrings } \cup {BackToken} :
             C32_Isolated(u, v,
               user_info,
               food_diary_hunger_selection(creation_states, user_info, files, u, parts),
               info0, food_diary_hunger_selection(cs0, info0, f0, u, parts))
        /\ \A record_id \in RecordIdTokens :
             /\ C32_Isolated(u, v,
                  user_info,
                  _start_edit_record(creation_states, user_info, files, u, record_id),
                  info0, _start_edit_record(cs0, info0, f0, u, record_id))
             /\ C32_Isolated(u, v,
                  user_info,
                  _remove_record(creation_states, user_info, files, u, record_id),
                  info0, _remove_record(cs0, info0, f0, u, record_id))
        /\ \A timezone_str \in ZoneTokens :
             C32_Isolated(u, v,
               user_info, _set_timezone(creation_states, user_info, files, u, timezone_str),
               info0, _set_timezone(cs0, info0, f0, u, timezone_str))
        /\ C32_Isolated(u, v, user_info, cancel_record_creation(creation_states, files, u),
                        info0, cancel_record_creation(cs0, f0, u))
        /\ C32_Isolated(u, v, user_info, food_diary_skip_time(creation_states, files, u),
                        info0, food_diary_skip_time(cs0, f0, u))
        /\ C32_Isolated(u, v, user_info, food_diary_skip_text(creation_states, files, u),
                        info0, food_diary_skip_text(cs0, f0, u))
        /\ C32_Isolated(u, v, user_info, food_diary_skip_drink(creation_states, files, u),
                        info0, food_diary_skip_drink(cs0, f0, u))
        /\ C32_Isolated(u, v, user_info, food_diary_text_back(creation_states, files, u),
                        info0, food_diary_text_back(cs0, f0, u))
        /\ C32_Isolated(u, v, user_info, food_diary_edit_back(creation_states, files, u),
                        info0, food_diary_edit_back(cs0, f0, u))

\* Two users are both in a new-record flow, their events interleaved, each
\* with a stored record; one of them has set a timezone preference and the
\* other has none.
C32_Witness ==
  /\ flow[1].kind = "new"
  /\ flow[2].kind = "new"
  /\ Len(Log(1)) = 1
  /\ Len(Log(2)) = 1
  /\ _get_user_timezone(user_info, files, 1) = Some("Asia/Dubai")
  /\ _get_user_timezone(user_info, files, 2) = None

\* The log the event loop starts from.
C33_InitialLog == [i \in 1..LoopRecords |-> FlowRecord(i, TRUE)]

\* The storage calls of task t have all returned.
C33_Stored(t) == t.pc \in {"edit_text", "answer"}

\* C33: store mutations of one user are serializable. Every handler reads the
\* log left by the last storage operation that ended, with no rewrite of
\* another handler under way, and with no handler between its storage calls
\* the log is the one the last operation left. When two operations have both
\* done their storage calls, with no failure, one of them read the initial
\* log, the other read the log the first left, and the final log is the one
\* the second left.
C33_MutationsSerializable ==
  /\ \A i \in 1..Len(tasks.pool) :
       tasks.pool[i].seen # None =>
         /\ tasks.pool[i].mid = {}
         /\ tasks.pool[i].seen[1] = tasks.pool[i].stable
  /\ (\A i \in 1..Len(tasks.pool) :
        tasks.pool[i].pc \notin {"rewrite_read", "rewrite_cleared"}) =>
       \A u \in LoopUsers : Log(u) = tasks.committed
  /\ (/\ tasks.failure = None
      /\ tasks.arrived = 2
      /\ Len(tasks.pool) = 2
      /\ \A i \in 1..2 : C33_Stored(tasks.pool[i])) =>
       \E i, j \in 1..2 :
         /\ i # j
         /\ tasks.pool[i].before = C33_InitialLog
         /\ tasks.pool[j].before = tasks.pool[i].after
         /\ \A u \in LoopUsers : Log(u) = tasks.pool[j].after

\* An edit-save of the first record and the deletion of the second were both
\* dispatched before either ended and both have done their storage calls: the
\* log holds the edited first record alone.
C33_Witness ==
  /\ tasks.failure = None
  /\ tasks.arrived = 2
  /\ Len(tasks.pool) = 2
  /\ \E i, j \in 1..2 :
       /\ tasks.pool[i].op = "hunger"
       /\ tasks.pool[j].op = "confirm_remove"
       /\ tasks.pool[j].arg = Some(1)
       /\ C33_Stored(tasks.pool[i])
       /\ C33_Stored(tasks.pool[j])
       /\ tasks.pool[i].after # tasks.pool[i].before
  /\ \A u \in LoopUsers :
       /\ Len(Log(u)) = 1
       /\ Log(u)[1].id = Some(0)
       /\ Log(u)[1].record = Some(<<"w">>)

\* ---------------------------------------------------------------- C34
\* The edit of the record with the given id in which every step is skipped:
\* the edit is started, time, text and drink are skipped, then both hunger
\* levels.
C34_SkippedEdit(u, record_id) ==
  LET e == _start_edit_record(creation_states, user_info, files, u, record_id)
      t == food_diary_skip_time(e.cs, e.files, u)
      x == food_diary_skip_text(t.cs, t.files, u)
      d == food_diary_skip_drink(x.cs, x.files, u)
      b == food_diary_hunger_selection(d.cs, user_info, d.files, u,
                                       HungerToken("before", SkipLevel))
      a == food_diary_hunger_selection(b.cs, user_info, b.files, u,
                                       HungerToken("after", SkipLevel))
  IN  [started |-> e, skipped |-> d, saved |-> a]

\* The time and the text of a stored record survive an edit in which every
\* step is skipped.
C34_TimeAndTextKept ==
  \A u \in Users : \A i \in 1..Len(Log(u)) :
    LET X == Log(u)[i]
        r == C34_SkippedEdit(u, X.id)
    IN  (IndexOfId(Log(u), X.id, 1) = i /\ r.saved.reply = "record_updated") =>
          LET Y == _get_records(user_info, r.saved.files, u)[i]
          IN  /\ r.skipped.cs[u].datetime_utc = X.datetime_utc
              /\ r.skipped.cs[u].record_text = X.record
              /\ Y.datetime_utc = X.datetime_utc
              /\ Y.record = X.record

\* C34: when record X is edited and the user skips time, text and drink (and
\* then both hunger levels), the draft after the skips and the saved record
\* keep X's previous datetime_utc, text and drink.
C34_SkippingPreserves ==
  \A u \in Users : \A i \in 1..Len(Log(u)) :
    LET X == Log(u)[i]
        r == C34_SkippedEdit(u, X.id)
    IN  (IndexOfId(Log(u), X.id, 1) = i /\ r.saved.reply = "record_updated") =>
          LET Y == _get_records(user_info, r.saved.files, u)[i]
          IN  /\ r.skipped.cs[u].datetime_utc = X.datetime_utc
              /\ r.skipped.cs[u].record_text = X.record
              /\ r.skipped.cs[u].drink = X.drink
              /\ Y.datetime_utc = X.datetime_utc
              /\ Y.record = X.record
              /\ Y.drink = X.drink

\* The skip of the time step alone already loses the drink of the draft.
C34_SkipTimeKeepsDrink ==
  \A u \in DOMAIN creation_states :
    (creation_states[u].editing_record_id # None /\ creation_states[u].step = "datetime") =>
      food_diary_skip_time(creation_states, files, u).cs[u].drink = creation_states[u].drink

\* ---------------------------------------------------------------- C35
\* The hunger-after token with the given level, handled on a state of drafts
\* and files.
C35_Submit(cs, f, u, level) ==
  food_diary_hunger_selection(cs, user_info, f, u, HungerToken("after", level))

\* C35: a draft is saved at most once. When the hunger-after token of a
\* new-record draft saves the draft, the user's log grows by exactly one
\* record, and the same token received again returns the "no active record
\* creation" error and changes neither the files nor the drafts; once a new
\* flow has been completed the user has no draft, and no hunger-after token
\* appends anything.
C35_DraftSavedAtMostOnce ==
  \A u \in Users : \A level \in LevelStrings :
    LET first == C35_Submit(creation_states, files, u, level)
        second == C35_Submit(first.cs, first.files, u, level)
    IN  /\ first.reply = "record_added" =>
             /\ Len(_get_records(user_info, first.files, u)) = Len(Log(u)) + 1
             /\ second.reply = "no_active_creation"
             /\ second.files = first.files
             /\ second.cs = first.cs
             /\ Len(_get_records(user_info, second.files, u)) = Len(Log(u)) + 1
        /\ flow[u].kind = "done_new" =>
             /\ u \notin DOMAIN creation_states
             /\ first.reply = "no_active_creation"
             /\ NoEffect(first)

\* A new flow has just been completed: its record is the one record of the
\* log, and the hunger-after token submitted once more is refused.
C35_Witness ==
  \E u \in Users :
    /\ flow[u].kind = "done_new"
    /\ Len(Log(u)) = 1
    /\ Log(u)[1].hunger_after = flow[u].after
    /\ C35_Submit(creation_states, files, u, <<"7">>).reply = "no_active_creation"

\* ---------------------------------------------------------------- C36
\* What the handlers that show a screen leave when user u sends their event,
\* whatever the profile and the record id the event carries.
C36_Shown(u) ==
  { food_diary_main(user_info, creation_states, files, u, from_user) :
      from_user \in Profiles }
    \cup { food_diary_records(user_info, creation_states, files, u, from_user) :
             from_user \in Profiles }
    \cup { food_diary_edit(user_info, creation_states, files, u),
           food_diary_settings(user_info, creation_states, files, u),
           food_diary_timezone_settings(user_info, creation_states, files, u) }
    \cup { food_diary_select_record(user_info, creation_states, files, u, record_id) :
             record_id \in RecordIdTokens }
    \cup { food_diary_remove_record(user_info, creation_states, files, u, record_id) :
             record_id \in RecordIdTokens }

\* The record log, the timezone preference and the draft of user v, read with
\* the names registered in info.
C36_StateOf(info, cs, f, v) ==
  [log |-> _get_records(info, f, v),
   timezone |-> _get_user_timezone(info, f, v),
   draft |-> Get(cs, v)]

\* No handler that shows a screen writes a file or touches a draft; the edit
\* list, the record details, the settings, the timezone list and the
\* remove-confirmation prompt leave every user's log, preference and draft as
\* they were, so the remove request alone removes no record.
C36_NothingWritten ==
  \A u \in Users :
    /\ \A s \in C36_Shown(u) : s.files = files /\ s.cs = creation_states
    /\ \A s \in C36_Shown(u) :
         s.info = user_info =>
           \A v \in Users :
             C36_StateOf(s.info, s.cs, s.files, v)
               = C36_StateOf(user_info, creation_states, files, v)

\* C36: showing the main menu, the records list, the edit list, the record
\* details, the settings, the timezone list or the remove-confirmation prompt
\* leaves every user's record log, timezone preference and draft unchanged.
C36_ReadOnlyScreens ==
  \A u \in Users : \A s \in C36_Shown(u) : \A v \in Users :
    C36_StateOf(s.info, s.cs, s.files, v)
      = C36_StateOf(user_info, creation_states, files, v)

\* ---------------------------------------------------------------- C37
\* The page the pagination handler of a list shows for the token that carries
\* offset o.
C37_Page(u, kind, o) ==
  IF kind = "records"
  THEN food_diary_records_pagination(user_info, files, u, IntStr(o))
  ELSE food_diary_edit_pagination(user_info, files, u, IntStr(o))

\* The offsets the handler reads from the Previous and Next tokens of that page.
C37_Emitted(u, kind, o) ==
  LET page == C37_Page(u, kind, o)
  IN  IF page.kind \notin {"records", "edit_records"} THEN {}
      ELSE { TokenOffset(IntStr(t[1])) : t \in {page.previous, page.next} \ {None} }

\* The offsets reached from the set S in at most k steps along emitted tokens.
RECURSIVE C37_Reached(_, _, _, _)
C37_Reached(u, kind, S, k) ==
  IF k = 0 THEN S
  ELSE C37_Reached(u, kind, S \cup UNION { C37_Emitted(u, kind, o) : o \in S }, k - 1)

\* Steps that take a walk from the first page past the last page of the
\* longest log.
C37_Steps == MaxViewRecords \div PageSize + 1

\* C37: for a non-empty log of N records, every offset reached from offset 0
\* along the Previous and Next tokens the records list and the edit list emit
\* is a multiple of 5 with 0 <= offset < N, and so is every offset on the
\* tokens of the page shown there; Previous is offered exactly when
\* offset > 0 and carries offset - 5, Next exactly when records remain after
\* the page and carries offset + 5.
C37_PaginationTokensInRange ==
  \A u \in Users : \A kind \in {"records", "edit_records"} :
    LET N == Len(Log(u))
    IN  N > 0 =>
          \A o \in C37_Reached(u, kind, {0}, C37_Steps) :
            /\ o % PageSize = 0
            /\ 0 <= o /\ o < N
            /\ \A e \in C37_Emitted(u, kind, o) :
                 e % PageSize = 0 /\ 0 <= e /\ e < N
            /\ LET page == C37_Page(u, kind, o)
               IN  page.kind = kind =>
                     /\ page.previous = (IF o > 0 THEN Some(o - PageSize) ELSE None)
                     /\ page.next = (IF o + PageSize < N THEN Some(o + PageSize)
                                     ELSE None)

\* The last page of a log of 12 records is on the screen, reached with the
\* token the page before it emitted: it offers Previous to offset 5 and no Next.
C37_Witness ==
  /\ screen.op = "records_page"
  /\ screen.arg = IntStr(10)
  /\ Len(Log(screen.user)) = 12
  /\ 10 \in C37_Emitted(screen.user, "records", 5)
  /\ 10 \in C37_Reached(screen.user, "records", {0}, C37_Steps)
  /\ screen.view.kind = "records"
  /\ screen.view.previous = Some(5)
  /\ screen.view.next = None

\* ---------------------------------------------------------------- C38
\* The notes of user u as stored.
C38_Notes(f, u) == read_jsonl(f, <<_u(user_info, u), NotesRel>>)

\* Texts that follow the command /note_add.
C38_Args == { <<>>, <<" ">>, <<" ", " ">>, <<" ", "a", " ">>, <<"b">>, <<"a", " ", "b">> }

\* C38: note_add with an empty or blank text writes nothing and returns the
\* usage message; note_add with a text appends exactly one note, holding the
\* stripped text, at the end of the user's notes log and leaves every other
\* file as it was; note_list returns the last min(20, N) of the N stored
\* notes in append order and leaves every file as it was.
C38_NotesTool ==
  \A u \in Users :
    LET notes == C38_Notes(files, u)
        N == Len(notes)
        shown == IF N < NotesListed THEN N ELSE NotesListed
        listed == handle(user_info, files, u, "note_list", <<>>)
    IN  /\ \A args \in C38_Args :
             LET added == handle(user_info, files, u, "note_add", args)
             IN  IF Strip(args) = <<>>
                 THEN added.files = files /\ added.reply.kind = "usage"
                 ELSE /\ added.reply.kind = "notes_saved"
                      /\ C38_Notes(added.files, u)
                           = notes \o << [ts |-> Some(IsoZ(now)),
                                          text |-> Some(Strip(args))] >>
                      /\ \A p \in DOMAIN added.files :
                           p # <<_u(user_info, u), NotesRel>> =>
                             p \in DOMAIN files /\ added.files[p] = files[p]
        /\ listed.files = files
        /\ IF N = 0 THEN listed.reply.kind = "notes_empty"
           ELSE /\ listed.reply.kind = "lines"
                /\ Len(listed.reply.lines) = shown
                /\ \A i \in 1..shown : listed.reply.lines[i] = notes[N - shown + i]
        /\ (screen.user = u /\ screen.op = "note_list") => screen.view = listed.reply

\* A listing of a log of 22 notes, the last of them added with /note_add, is
\* on the screen: it shows 20 notes, from the third to the added one.
C38_Witness ==
  /\ screen.op = "note_list"
  /\ Len(C38_Notes(files, screen.user)) = 22
  /\ screen.view.kind = "lines"
  /\ Len(screen.view.lines) = 20
  /\ screen.view.lines[1] = C38_Notes(files, screen.user)[3]
  /\ screen.view.lines[20] = [ts |-> Some(IsoZ(now)), text |-> Some(<<"a">>)]

====
